---- MODULE Spec2Model ----
(***************************************************************************)
(* Conversation orchestration and tool-execution engine of the terminal    *)
(* agent: the line-input queue (input-handler), Agent.run,                 *)
(* Agent.runInference, Agent.executeTools, Agent.saveConversation, the     *)
(* signal handler and the edit_file tool body.                             *)
(*                                                                         *)
(* One action is one event-loop task: the handler of an external event     *)
(* (a line, end of input, a backend reply, a filesystem completion, a      *)
(* timer, a signal) together with every continuation that runs before the  *)
(* program next waits for an external event.                               *)
(***************************************************************************)
EXTENDS Integers, Sequences, FiniteSets, TLC

(***************************************************************************)
(* Bounds of the model                                                     *)
(***************************************************************************)
\* number of tool batches per run the backend may draw from RichMenu
MaxRichBatches == 1
\* number of tool_use responses the backend gives in a run of Spec
MaxToolAsks == 2
\* number of chat lines the operator types in the long-conversation runs
MaxChatLines == 4
\* number of interrupt signals the operator may send in one run
MaxSignals == 2
\* length of the file contents edit_file is tried on
MaxText == 3
\* length of the old_str texts edit_file is tried with
MaxOld == 2
\* length of the short texts generateDiff is tried on
MaxDiffText == 3

(***************************************************************************)
(* Program constants                                                       *)
(***************************************************************************)
MAX_TOOL_TURNS == 10
HistoryCap == 50
\* getChangeSnippet's contextLines
ContextLines == 3
\* generateDiff's contextLines
DiffContextLines == 3
\* generateDiff: lookAhead < 50
LookAheadLimit == 50
\* generateDiff: k < 3, the lines checked to confirm a sync
SyncCheck == 3

(***************************************************************************)
(* Text: a string is a sequence of one-character strings                   *)
(***************************************************************************)
IsWhite(c) == c \in {" ", "\t", "\n"}

RECURSIVE trimStart(_)
trimStart(s) ==
  IF s # <<>> /\ IsWhite(Head(s)) THEN trimStart(Tail(s)) ELSE s

RECURSIVE trimEnd(_)
trimEnd(s) ==
  IF s # <<>> /\ IsWhite(s[Len(s)])
  THEN trimEnd(SubSeq(s, 1, Len(s) - 1))
  ELSE s

trim(s) == trimEnd(trimStart(s))

LowerOf(c) ==
  CASE c = "E" -> "e" [] c = "H" -> "h" [] c = "I" -> "i" [] c = "N" -> "n"
    [] c = "O" -> "o" [] c = "Q" -> "q" [] c = "S" -> "s" [] c = "T" -> "t"
    [] c = "U" -> "u" [] c = "X" -> "x" [] c = "Y" -> "y"
    [] OTHER -> c

toLowerCase(s) == [i \in 1..Len(s) |-> LowerOf(s[i])]

\* s has p at position i (1-based)
StartsAt(s, p, i) ==
  /\ i >= 1
  /\ i + Len(p) - 1 <= Len(s)
  /\ SubSeq(s, i, i + Len(p) - 1) = p

\* String.prototype.indexOf, 1-based; 0 when p does not occur
RECURSIVE indexOfFrom(_, _, _)
indexOfFrom(s, p, i) ==
  IF i + Len(p) - 1 > Len(s) THEN 0
  ELSE IF StartsAt(s, p, i) THEN i
  ELSE indexOfFrom(s, p, i + 1)

indexOf(s, p) == indexOfFrom(s, p, 1)

\* content.split(p).length - 1 for a non-empty p: the matches found scanning
\* left to right, each scan resuming after the previous match
RECURSIVE splitCountFrom(_, _, _)
splitCountFrom(s, p, i) ==
  IF i + Len(p) - 1 > Len(s) THEN 0
  ELSE IF StartsAt(s, p, i) THEN 1 + splitCountFrom(s, p, i + Len(p))
  ELSE splitCountFrom(s, p, i + 1)

occurrences(content, oldStr) == splitCountFrom(content, oldStr, 1)

\* the replacement text of String.prototype.replace(string, string): in the
\* replacement, $$ is a dollar, $& the match, $` the text before the match
\* and $' the text after it
RECURSIVE expandReplacement(_, _, _, _)
expandReplacement(r, matched, before, after) ==
  IF r = <<>> THEN <<>>
  ELSE IF Head(r) = "$" /\ Len(r) >= 2 /\ r[2] \in {"$", "&", "`", "'"}
  THEN (CASE r[2] = "$" -> <<"$">>
          [] r[2] = "&" -> matched
          [] r[2] = "`" -> before
          [] r[2] = "'" -> after)
       \o expandReplacement(SubSeq(r, 3, Len(r)), matched, before, after)
  ELSE <<Head(r)>> \o expandReplacement(Tail(r), matched, before, after)

\* content.replace(p, r): the first occurrence of p replaced
replace(content, p, r) ==
  LET i == indexOf(content, p) IN
  IF i = 0 THEN content
  ELSE LET before == SubSeq(content, 1, i - 1)
           after == SubSeq(content, i + Len(p), Len(content))
       IN before \o expandReplacement(r, p, before, after) \o after

\* s.split("\n").length
splitLines(s) == 1 + Cardinality({k \in 1..Len(s) : s[k] = "\n"})

endsWithNewline(content) == content # <<>> /\ content[Len(content)] = "\n"

(***************************************************************************)
(* JSON values of a tool input                                             *)
(***************************************************************************)
Absent == [t |-> "absent", s |-> <<>>, b |-> FALSE, n |-> 0]
JStr(x) == [t |-> "str", s |-> x, b |-> FALSE, n |-> 0]
JBool(x) == [t |-> "bool", s |-> <<>>, b |-> x, n |-> 0]
JNum(x) == [t |-> "num", s |-> <<>>, b |-> FALSE, n |-> x]

\* JavaScript truthiness of a value (used by `x || default` and `!x`)
Truthy(v) ==
  CASE v.t = "str" -> v.s # <<>>
    [] v.t = "bool" -> v.b
    [] v.t = "num" -> v.n # 0
    [] OTHER -> FALSE

\* v === true
IsTrue(v) == v.t = "bool" /\ v.b

\* A tool input: shape "object" with the keys it has, or a non-object.
\* A key that is not in `keys` reads as undefined (Absent).
MkInput(path, old, new, mode, confirm, command) ==
  [shape |-> "object",
   keys |-> (IF path.t # "absent" THEN {"path"} ELSE {})
            \cup (IF old.t # "absent" THEN {"old_str"} ELSE {})
            \cup (IF new.t # "absent" THEN {"new_str"} ELSE {})
            \cup (IF mode # "" THEN {"mode"} ELSE {})
            \cup (IF confirm.t # "absent" THEN {"confirm"} ELSE {})
            \cup (IF command.t # "absent" THEN {"command"} ELSE {}),
   path |-> path, old_str |-> old, new_str |-> new, mode |-> mode,
   confirm |-> confirm, command |-> command]

NonObject(shape) ==
  [shape |-> shape, keys |-> {}, path |-> Absent, old_str |-> Absent,
   new_str |-> Absent, mode |-> "", confirm |-> Absent, command |-> Absent]

(***************************************************************************)
(* Tool catalog (the tools main hands to the Agent) and validation         *)
(***************************************************************************)
Catalog ==
  {"get_current_datetime", "read_file", "edit_file", "ltft_calculator",
   "use_bash"}

\* this.tools: the names of the tools the Agent was constructed with
VARIABLE tools

\* input_schema.required of each catalog entry
Required(name) ==
  CASE name = "get_current_datetime" -> {}
    [] name = "read_file" -> {"path"}
    [] name = "edit_file" -> {"path", "new_str"}
    [] name = "ltft_calculator" ->
         {"current_cct_date", "current_work_percentage",
          "proposed_work_percentage", "proposed_start_date"}
    [] name = "use_bash" -> {"command"}
    [] OTHER -> {}

\* (variant: the required names are not looked at)
validateInputShapeOnly(input, required) ==
  IF input.shape # "object" THEN "Input must be a valid object" ELSE ""

\* "" when the input is accepted, else the message of the Error thrown
validateInput(input, required) ==
  IF input.shape # "object" THEN "Input must be a valid object"
  ELSE IF required \ input.keys # {} THEN "Missing required fields"
  ELSE ""

(***************************************************************************)
(* The filesystem as edit_file sees it: one target path                    *)
(***************************************************************************)
FileText == <<"a", "\n", "b", "\n", "c", "\n">>
DiskWithFile == [exists |-> TRUE, dir |-> TRUE, content |-> FileText]
DiskEmpty == [exists |-> FALSE, dir |-> FALSE, content |-> <<>>]

(***************************************************************************)
(* EditFileTool.execute, one step per await                                *)
(***************************************************************************)
validModes == {"replace", "insert_before", "insert_after", "append"}

\* const mode = (input.mode as string) || "replace"
editMode(input) == IF input.mode # "" THEN input.mode ELSE "replace"

\* (variant: a confirm key of any value confirms)
editConfirmPresent(input) == input.confirm.t # "absent"

\* const confirm = (input.confirm as boolean) || false, as `!confirm` reads it
editConfirm(input) == Truthy(input.confirm)

\* change_location of a result; 0-0 where the result has none
NoLoc == [start_line |-> 0, end_line |-> 0]

NoExec ==
  [stage |-> "none", newContent |-> <<>>, action |-> "", loc |-> NoLoc]
Running(stage, newContent, action) ==
  [stage |-> stage, newContent |-> newContent, action |-> action,
   loc |-> NoLoc]

\* what a call or a step of execute hands back: still running (kind "none"),
\* a rejected promise, or a returned text (error / preview / success JSON)
NoRet == [kind |-> "none", action |-> "", loc |-> NoLoc]
Ret(kind, action) == [kind |-> kind, action |-> action, loc |-> NoLoc]
At(rec, loc) == [rec EXCEPT !.loc = loc]

Min(a, b) == IF a < b THEN a ELSE b
Max(a, b) == IF a > b THEN a ELSE b

\* getChangeSnippet's start_line and end_line
getChangeSnippet(content, changedStr) ==
  LET lines == splitLines(content)
      changeStart == indexOf(content, changedStr)
  IN
  IF changeStart = 0 THEN [start_line |-> 1, end_line |-> 1]
  ELSE LET startLine == splitLines(SubSeq(content, 1, changeStart - 1))
           changeLines == splitLines(changedStr)
           endLine == startLine + changeLines - 1
           snippetStart == Max(0, startLine - 1 - ContextLines)
           snippetEnd == Min(lines, endLine + ContextLines)
       IN [start_line |-> snippetStart + 1, end_line |-> snippetEnd]

\* changedText of the preview and of the success result
changedText(mode, oldStr, newStr) ==
  CASE mode = "replace" -> newStr
    [] mode = "insert_before" -> newStr \o <<"\n">> \o oldStr
    [] OTHER -> oldStr \o <<"\n">> \o newStr

\* the call itself, up to the first await (fs.access)
editBegin(input) ==
  IF input.path.t # "str"
  THEN [ex |-> NoExec, ret |-> Ret("reject", "TypeError")]
  ELSE IF editMode(input) \notin validModes
  THEN [ex |-> NoExec, ret |-> Ret("error", "invalid_mode")]
  ELSE IF /\ editMode(input) = "replace"
          /\ input.old_str.t # "absent"
          /\ input.old_str = input.new_str
  THEN [ex |-> NoExec, ret |-> Ret("error", "same_text")]
  ELSE [ex |-> Running("access", <<>>, ""), ret |-> NoRet]

\* the new content of an existing file for replace / insert_before /
\* insert_after
buildNewContent(content, oldStr, newStr, mode) ==
  CASE mode = "insert_before" ->
         replace(content, oldStr, newStr \o <<"\n">> \o oldStr)
    [] mode = "insert_after" ->
         replace(content, oldStr, oldStr \o <<"\n">> \o newStr)
    [] OTHER -> replace(content, oldStr, newStr)

actionLabel(mode) ==
  CASE mode = "insert_before" -> "inserted_before"
    [] mode = "insert_after" -> "inserted_after"
    [] OTHER -> "replaced"

\* fs.access has settled
editAfterAccess(input, disk) ==
  IF ~disk.exists
  THEN IF Truthy(input.old_str) \/ editMode(input) = "append"
       THEN [ex |-> NoExec, ret |-> Ret("error", "file_not_found")]
       ELSE IF ~editConfirm(input)
       THEN [ex |-> NoExec, ret |-> Ret("preview", "create")]
       ELSE [ex |-> Running("mkdir", input.new_str.s, "created"),
             ret |-> NoRet]
  ELSE [ex |-> Running("read", <<>>, ""), ret |-> NoRet]

\* fs.readFile has settled
editAfterRead(input, disk) ==
  LET content == disk.content
      mode == editMode(input)
      oldStr == input.old_str.s
      newStr == input.new_str.s
  IN
  IF ~disk.exists
  THEN [ex |-> NoExec, ret |-> Ret("error", "could_not_edit")]
  ELSE IF mode = "append"
  THEN LET separator == IF endsWithNewline(content) THEN <<>> ELSE <<"\n">>
           newContent == content \o separator \o newStr
       IN IF ~editConfirm(input)
          THEN [ex |-> NoExec, ret |-> Ret("preview", "append")]
          ELSE [ex |-> Running("write", newContent, "appended"),
                ret |-> NoRet]
  ELSE IF ~Truthy(input.old_str)
  THEN [ex |-> NoExec, ret |-> Ret("error", "old_str_required")]
  ELSE IF occurrences(content, oldStr) = 0
  THEN [ex |-> NoExec, ret |-> Ret("error", "not_found")]
  ELSE IF occurrences(content, oldStr) > 1
  THEN [ex |-> NoExec, ret |-> Ret("error", "ambiguous")]
  ELSE LET newContent == buildNewContent(content, oldStr, newStr, mode)
           snippet == getChangeSnippet(newContent,
                                       changedText(mode, oldStr, newStr))
       IN IF ~editConfirm(input)
          THEN [ex |-> NoExec,
                ret |-> At(Ret("preview", actionLabel(mode)), snippet)]
          ELSE [ex |-> At(Running("write", newContent, actionLabel(mode)),
                          snippet),
                ret |-> NoRet]

\* one await of execute settles: the step's effect on the disk, the
\* continuation of the execution, and what it returns if it ends here
editStep(ex, input, disk) ==
  CASE ex.stage = "access" ->
         [disk |-> disk] @@ editAfterAccess(input, disk)
    [] ex.stage = "read" ->
         [disk |-> disk] @@ editAfterRead(input, disk)
    [] ex.stage = "mkdir" ->
         [disk |-> [disk EXCEPT !.dir = TRUE],
          ex |-> [ex EXCEPT !.stage = "write"], ret |-> NoRet]
    [] ex.stage = "write" ->
         [disk |-> [exists |-> TRUE, dir |-> TRUE,
                    content |-> ex.newContent],
          ex |-> NoExec, ret |-> At(Ret("success", ex.action), ex.loc)]

(***************************************************************************)
(* generateDiff: the changed regions (tools.ts 340-424); line indices are  *)
(* 0-based as in the code                                                  *)
(***************************************************************************)
\* s.split("\n")
RECURSIVE splitNewline(_)
splitNewline(s) ==
  LET k == indexOf(s, <<"\n">>) IN
  IF k = 0 THEN <<s>>
  ELSE <<SubSeq(s, 1, k - 1)>> \o splitNewline(SubSeq(s, k + 1, Len(s)))

\* a.slice(from, to)
slice(a, from, to) == SubSeq(a, from + 1, Min(to, Len(a)))

\* (variant: the lines at the sync point are not compared)
syncsAtUncompared(oldLines, newLines, i, j, oi, ni) ==
  /\ i + oi < Len(oldLines)
  /\ j + ni < Len(newLines)

\* the test of the innermost loop: old[i + oi] is new[j + ni], and of the
\* next lines those that both texts have are the same
syncsAt(oldLines, newLines, i, j, oi, ni) ==
  /\ i + oi < Len(oldLines)
  /\ j + ni < Len(newLines)
  /\ oldLines[i + oi + 1] = newLines[j + ni + 1]
  /\ \A k \in 1..(SyncCheck - 1) :
       (i + oi + k < Len(oldLines) /\ j + ni + k < Len(newLines))
       => oldLines[i + oi + k + 1] = newLines[j + ni + k + 1]

\* the pairs <<lookAhead, oi>> the two loops go through that can be inside
\* both texts
lookPairs(oldLines, newLines, i, j) ==
  LET far == Min(LookAheadLimit - 1,
                 (Len(oldLines) - i) + (Len(newLines) - j))
  IN {h \in (1..far) \X (0..far) : h[2] <= h[1]}

\* the change pushed when the texts sync again after oi old lines and ni
\* new lines
syncChange(oldLines, newLines, i, j, oi, ni) ==
  [oldStart |-> i, oldCount |-> oi, newStart |-> j, newCount |-> ni,
   oldChunk |-> slice(oldLines, i, i + oi),
   newChunk |-> slice(newLines, j, j + ni)]

\* (variant: the rest of the new text is cut at the lookahead)
restChangeCut(oldLines, newLines, i, j) ==
  [oldStart |-> i, oldCount |-> Len(oldLines) - i,
   newStart |-> j,
   newCount |-> Min(Len(newLines) - j, LookAheadLimit - 1),
   oldChunk |-> slice(oldLines, i, Len(oldLines)),
   newChunk |-> slice(newLines, j, j + LookAheadLimit - 1)]

\* the change pushed when no sync is found: the rest of the file changed
restChange(oldLines, newLines, i, j) ==
  [oldStart |-> i, oldCount |-> Len(oldLines) - i,
   newStart |-> j, newCount |-> Len(newLines) - j,
   oldChunk |-> slice(oldLines, i, Len(oldLines)),
   newChunk |-> slice(newLines, j, Len(newLines))]

\* the while loop from i, j on: the changes it pushes
RECURSIVE changesFrom(_, _, _, _)
changesFrom(oldLines, newLines, i, j) ==
  IF ~(i < Len(oldLines) \/ j < Len(newLines)) THEN <<>>
  ELSE IF /\ i < Len(oldLines)
          /\ j < Len(newLines)
          /\ oldLines[i + 1] = newLines[j + 1]
  THEN changesFrom(oldLines, newLines, i + 1, j + 1)
  ELSE LET hits == {h \in lookPairs(oldLines, newLines, i, j) :
                      syncsAt(oldLines, newLines, i, j, h[2], h[1] - h[2])}
       IN IF hits = {}
          THEN <<restChange(oldLines, newLines, i, j)>>
          ELSE LET first == CHOOSE h \in hits :
                              \A g \in hits :
                                \/ h[1] < g[1]
                                \/ h[1] = g[1] /\ h[2] <= g[2]
                   oi == first[2]
                   ni == first[1] - first[2]
               IN <<syncChange(oldLines, newLines, i, j, oi, ni)>>
                  \o changesFrom(oldLines, newLines, i + oi, j + ni)

\* (variant: equal texts are not told apart from an empty diff)
isNoChangesNever(changes) == FALSE

\* if (changes.length === 0) return "(no changes)"
isNoChanges(changes) == Len(changes) = 0

\* the block rendered for one change (tools.ts 434-490): the old-text
\* indices of the lines printed dimmed before the removed and added lines,
\* and of those printed dimmed after them
renderBlock(oldLines, newLines, change) ==
  LET ctxBefore == Min(DiffContextLines, change.oldStart)
      ctxAfterOld == Min(DiffContextLines,
                         Len(oldLines) - (change.oldStart + change.oldCount))
  IN [before |-> [n \in 1..ctxBefore |->
                    change.oldStart - ctxBefore + n - 1],
      after |-> [n \in 1..Max(ctxAfterOld, 0) |->
                   change.oldStart + change.oldCount + n - 1]]

\* generateDiff: the changes, whether the text returned is the
\* "(no changes)" marker, and the blocks of the rendered text
generateDiff(oldContent, newContent) ==
  LET oldLines == splitNewline(oldContent)
      newLines == splitNewline(newContent)
      changes == changesFrom(oldLines, newLines, 0, 0)
  IN [changes |-> changes, marker |-> isNoChanges(changes),
      blocks |-> [k \in 1..Len(changes) |->
                    renderBlock(oldLines, newLines, changes[k])]]

(***************************************************************************)
(* The line-input queue (createGetUserMessage)                             *)
(***************************************************************************)
\* who holds the stored resolver: nobody (null), run()'s read at the top of
\* its loop, or the approval read of request i of the batch (i >= 1)
NoReader == 0
RunReader == 0 - 1

\* what a read resolves with: a line, or null at end of input
Line(text) == [eof |-> FALSE, text |-> text]
NullLine == [eof |-> TRUE, text |-> <<>>]

\* the function createGetUserMessage returns: a buffered line resolves the
\* read at once; otherwise the caller's resolver is stored, replacing the
\* one that was stored
getUserMessage(ls, rp, reader) ==
  IF Len(ls) > 0
  THEN [ready |-> TRUE, value |-> Line(Head(ls)), lines |-> Tail(ls),
        resolvePromise |-> rp]
  ELSE [ready |-> FALSE, value |-> NullLine, lines |-> ls,
        resolvePromise |-> reader]

(***************************************************************************)
(* Agent.executeTools: one request of the batch                            *)
(***************************************************************************)
NoResult ==
  [tool_use_id |-> 0, is_error |-> FALSE, content |-> "", out |-> NoRet]

\* (variant: the result block leaves out tool_use_id)
toolResultNoId(toolUse, out) ==
  [tool_use_id |-> 0, is_error |-> FALSE, content |-> out.kind,
   out |-> out]

\* the tool_result block of a settled execute (agent.ts 287-291)
toolResult(toolUse, out) ==
  [tool_use_id |-> toolUse.id, is_error |-> FALSE, content |-> out.kind,
   out |-> out]

\* (variant: the error block leaves out tool_use_id)
errorResultNoId(toolUse, content) ==
  [tool_use_id |-> 0, is_error |-> TRUE, content |-> content, out |-> NoRet]

\* an error tool_result block (agent.ts 219-224, 250-257, 297-302)
errorResult(toolUse, content) ==
  [tool_use_id |-> toolUse.id, is_error |-> TRUE, content |-> content,
   out |-> NoRet]

\* a request while executeTools runs it.  st: "approval" (waiting for the
\* operator's reply), "exec" (execute called, racing its 30 s timer),
\* "done" (its promise resolved with `result`), "rejected" (its promise
\* rejected).  ex is the execute call, which keeps running after a timeout.
NewReq(toolUse) ==
  [id |-> toolUse.id, name |-> toolUse.name, input |-> toolUse.input,
   st |-> "new", asked |-> FALSE, answered |-> FALSE, reply |-> NullLine,
   approved |-> FALSE, executed |-> FALSE, result |-> NoResult,
   ex |-> NoExec]

resolved(req, result) == [req EXCEPT !.st = "done", !.result = result]

\* (variant: no catch block, the request's promise rejects)
uncaughtToolError(req, message) == [req EXCEPT !.st = "rejected"]

\* the catch block of the request (agent.ts 292-303): the error becomes an
\* error result
catchToolError(req, message) == resolved(req, errorResult(req, message))

\* toolDef.execute(input), the timer and the race (agent.ts 264-275), up to
\* the first await of the tool body
startExecute(req) ==
  LET r == [req EXCEPT !.executed = TRUE] IN
  CASE req.name = "edit_file" ->
         LET b == editBegin(req.input) IN
         IF b.ret.kind = "reject" THEN catchToolError(r, b.ret.action)
         ELSE IF b.ret.kind # "none" THEN resolved(r, toolResult(r, b.ret))
         ELSE [r EXCEPT !.st = "exec", !.ex = b.ex]
    [] req.name \in {"use_bash", "read_file"} ->
         [r EXCEPT !.st = "exec", !.ex = Running("run", <<>>, "")]
    [] OTHER -> resolved(r, toolResult(r, Ret("text", "")))

\* (variant: any truthy confirm opens the approval gate)
approvalNeededTruthy(name, input) ==
  /\ name = "edit_file"
  /\ input.shape = "object"
  /\ "confirm" \in input.keys
  /\ Truthy(input.confirm)

\* the condition of the approval gate (agent.ts 231-237), for an input that
\* passed validation
approvalNeeded(name, input) ==
  /\ name = "edit_file"
  /\ input.shape = "object"
  /\ "confirm" \in input.keys
  /\ IsTrue(input.confirm)

\* (variant: everything but "no" / "n" approves)
isApprovalUnlessNo(approval) ==
  \/ approval.eof
  \/ toLowerCase(trim(approval.text)) \notin {<<"n", "o">>, <<"n">>}

\* approval?.trim().toLowerCase() is "yes" or "y" (agent.ts 243-246)
isApproval(approval) ==
  /\ ~approval.eof
  /\ toLowerCase(trim(approval.text)) \in {<<"y", "e", "s">>, <<"y">>}

\* the approval read has resolved with `approval` (agent.ts 243-262), then
\* the execute call
afterApproval(req, approval) ==
  LET r == [req EXCEPT !.answered = TRUE, !.reply = approval] IN
  IF ~isApproval(approval)
  THEN resolved(r, errorResult(r, "Edit cancelled by user"))
  ELSE startExecute([r EXCEPT !.approved = TRUE])

\* (variant: the approval gate comes before the lookup of the tool)
beginRequestGateFirst(toolUse, i, ls, rp) ==
  LET req == NewReq(toolUse)
      same == [lines |-> ls, resolvePromise |-> rp]
  IN
  IF approvalNeeded(toolUse.name, toolUse.input)
  THEN LET g == getUserMessage(ls, rp, i)
           asked == [req EXCEPT !.asked = TRUE]
       IN [req |-> IF g.ready THEN afterApproval(asked, g.value)
                   ELSE [asked EXCEPT !.st = "approval"],
           lines |-> g.lines, resolvePromise |-> g.resolvePromise]
  ELSE IF toolUse.name \notin tools
  THEN [req |-> resolved(req, errorResult(req, "Error: Tool not found"))]
       @@ same
  ELSE IF validateInput(toolUse.input, Required(toolUse.name)) # ""
  THEN [req |-> catchToolError(
                  req, validateInput(toolUse.input, Required(toolUse.name)))]
       @@ same
  ELSE [req |-> startExecute(req)] @@ same

\* the request from its start to its first wait (agent.ts 199-275); i is
\* its position in the batch, ls and rp the input queue as it finds it
beginRequest(toolUse, i, ls, rp) ==
  LET req == NewReq(toolUse)
      same == [lines |-> ls, resolvePromise |-> rp]
  IN
  IF toolUse.name \notin tools
  THEN [req |-> resolved(req, errorResult(req, "Error: Tool not found"))]
       @@ same
  ELSE IF validateInput(toolUse.input, Required(toolUse.name)) # ""
  THEN [req |-> catchToolError(
                  req, validateInput(toolUse.input, Required(toolUse.name)))]
       @@ same
  ELSE IF approvalNeeded(toolUse.name, toolUse.input)
  THEN LET g == getUserMessage(ls, rp, i)
           asked == [req EXCEPT !.asked = TRUE]
       IN [req |-> IF g.ready THEN afterApproval(asked, g.value)
                   ELSE [asked EXCEPT !.st = "approval"],
           lines |-> g.lines, resolvePromise |-> g.resolvePromise]
  ELSE [req |-> startExecute(req)] @@ same

\* toolUseBlocks.map(async toolUse => ...): every request runs to its first
\* wait, in order, within the same task
RECURSIVE dispatch(_, _, _, _, _)
dispatch(blocks, i, ls, rp, acc) ==
  IF i > Len(blocks)
  THEN [reqs |-> acc, lines |-> ls, resolvePromise |-> rp]
  ELSE LET b == beginRequest(blocks[i], i, ls, rp)
       IN dispatch(blocks, i + 1, b.lines, b.resolvePromise,
                   Append(acc, b.req))

TimeoutMessage == "Tool execution timed out after 30s"

\* (variant: one timer for the batch, its firing fails every request that
\* is still executing)
onTimeoutAll(rs, i) ==
  [j \in 1..Len(rs) |->
     IF rs[j].st = "exec" THEN catchToolError(rs[j], TimeoutMessage)
     ELSE rs[j]]

\* the timer of request i rejects its race (agent.ts 268-275): the catch
\* block of that request makes the timeout result; no other request of the
\* batch is touched
onTimeout(rs, i) == [rs EXCEPT ![i] = catchToolError(@, TimeoutMessage)]

\* Promise.all over the batch
allResolved(reqs) == \A i \in 1..Len(reqs) : reqs[i].st = "done"
anyRejected(reqs) == \E i \in 1..Len(reqs) : reqs[i].st = "rejected"
resultsOf(reqs) == [i \in 1..Len(reqs) |-> reqs[i].result]

(***************************************************************************)
(* Messages of the Conversation                                            *)
(***************************************************************************)
\* { role: "user", content: userInput }: content is a string
UserText ==
  [role |-> "user", kind |-> "text", text |-> TRUE, ids |-> <<>>,
   errs |-> <<>>]

\* { role: "assistant", content: currentContent }: content is the block
\* array of a response; ids are the ids of its tool_use blocks
AssistantMsg(content) ==
  [role |-> "assistant", kind |-> "blocks", text |-> content.text,
   ids |-> [i \in 1..Len(content.blocks) |-> content.blocks[i].id],
   errs |-> <<>>]

\* { role: "user", content: toolResults }: content is the tool_result array
ToolResultsMsg(results) ==
  [role |-> "user", kind |-> "results", text |-> FALSE,
   ids |-> [i \in 1..Len(results) |-> results[i].tool_use_id],
   errs |-> [i \in 1..Len(results) |-> results[i].is_error]]

\* (variant: the test of the content's type left out)
isAnyUser(msg) == msg.role = "user"

\* msg.role === "user" && typeof msg.content === "string"
isPlainUser(msg) == msg.role = "user" /\ msg.kind = "text"

hasToolUse(msg) == msg.role = "assistant" /\ Len(msg.ids) > 0

(***************************************************************************)
(* History bounding (agent.ts 79-91); indices are 0-based as in the code   *)
(***************************************************************************)
RECURSIVE walkForward(_, _)
walkForward(conv, sliceIndex) ==
  IF sliceIndex < Len(conv) /\ ~isPlainUser(conv[sliceIndex + 1])
  THEN walkForward(conv, sliceIndex + 1)
  ELSE sliceIndex

\* let sliceIndex = conversation.length - 50, then the walk (agent.ts 80-89)
sliceIndexOf(conv) == walkForward(conv, Len(conv) - HistoryCap)

\* (variant: the history is never cut)
boundHistoryNever(conv) == conv

\* (variant: the last 50 messages are kept, wherever they begin)
boundHistoryNoWalk(conv) ==
  IF Len(conv) > HistoryCap
  THEN SubSeq(conv, Len(conv) - HistoryCap + 1, Len(conv))
  ELSE conv

\* if (conversation.length > 50) conversation = conversation.slice(sliceIndex)
boundHistory(conv) ==
  IF Len(conv) > HistoryCap
  THEN SubSeq(conv, sliceIndexOf(conv) + 1, Len(conv))
  ELSE conv

(***************************************************************************)
(* Backend responses                                                       *)
(***************************************************************************)
Response(text, blocks, stop) ==
  [content |-> [text |-> text, blocks |-> blocks], stop_reason |-> stop]

NoContent == [text |-> FALSE, blocks |-> <<>>]

\* (variant: the limit is one turn later)
turnLimitOffByOne(toolTurns) == toolTurns > MAX_TOOL_TURNS + 1

\* toolTurns > MAX_TOOL_TURNS (agent.ts 163)
turnLimitExceeded(toolTurns) == toolTurns > MAX_TOOL_TURNS

\* what runInference writes to the terminal for one response: the
\* "[Stopping: exceeded ... tool turns]" notice (agent.ts 164-166), the
\* response's text blocks (agent.ts 181-186)
Printed(notice, text) == [notice |-> notice, text |-> text]

(***************************************************************************)
(* State                                                                   *)
(***************************************************************************)
VARIABLES
  stdin,           \* what the operator will still type, line by line
  closed,          \* the input stream has ended (readline 'close' fired)
  lines,           \* input-handler: lines buffered, no reader waiting
  resolvePromise,  \* input-handler: the stored resolver
  pc,              \* where run() waits: "await_line", "inferring", "tools",
                   \* "saving"; or has ended: "done" (returned), "failed"
  conversation,    \* run(): the Conversation
  toolTurns,       \* runInference(): the tool-turn counter
  currentContent,  \* runInference(): content of the last response
  reqs,            \* executeTools(): the batch in flight
  bg,              \* execute calls that outlived their batch (timed out)
  disk,            \* the file edit_file works on
  fileWrites,      \* log of edit_file's disk writes: request id, approved
  isShuttingDown,  \* run(): the signal handler's flag
  sigSaving,       \* the signal handler waits for its transcript write
  exited,          \* process.exit was called / the process was killed
  writes,          \* transcript writes (fs.writeFile calls) of the run
  nextId,          \* backend: ids handed out to tool_use blocks
  richLeft,        \* backend: batches it may still draw from RichMenu
  asksLeft,        \* backend: tool_use responses it may still give
  sigLeft,         \* operator: signals still to be sent
  calls,           \* backend calls made in the current user turn
  dispatches,      \* batches handed to executeTools in the current turn
  lastCut,         \* what the last history-bounding step did
  printed,         \* runInference(): what it printed for the last response
  diff             \* a call of generateDiff: its texts, then its result

vars ==
  <<tools, stdin, closed, lines, resolvePromise, pc, conversation, toolTurns,
    currentContent, reqs, bg, disk, fileWrites, isShuttingDown, sigSaving,
    exited, writes, nextId, richLeft, asksLeft, sigLeft, calls, dispatches,
    lastCut, printed, diff>>

\* the part of the state the orchestrator's own code reads and writes
Orch ==
  [pc |-> pc, lines |-> lines, resolvePromise |-> resolvePromise,
   conversation |-> conversation, toolTurns |-> toolTurns,
   currentContent |-> currentContent, reqs |-> reqs, bg |-> bg,
   writes |-> writes, calls |-> calls, dispatches |-> dispatches,
   lastCut |-> lastCut, printed |-> printed]

SetOrch(o) ==
  /\ pc' = o.pc
  /\ lines' = o.lines
  /\ resolvePromise' = o.resolvePromise
  /\ conversation' = o.conversation
  /\ toolTurns' = o.toolTurns
  /\ currentContent' = o.currentContent
  /\ reqs' = o.reqs
  /\ bg' = o.bg
  /\ writes' = o.writes
  /\ calls' = o.calls
  /\ dispatches' = o.dispatches
  /\ lastCut' = o.lastCut
  /\ printed' = o.printed

(***************************************************************************)
(* Agent.saveConversation and Agent.run                                    *)
(***************************************************************************)
\* a call of fs.writeFile(filePath, JSON.stringify(conversation))
TranscriptWrite(by, conv) == [by |-> by, conv |-> conv, st |-> "writing"]

\* a history-bounding step that cut: the length it found, the index it cut
\* at, and whether a tool-result message lay between index length-50 and
\* the cut
NoCut == [len |-> 0, at |-> 0, overResults |-> FALSE]
cutOf(pushed) ==
  [len |-> Len(pushed), at |-> sliceIndexOf(pushed),
   overResults |->
     \E k \in (Len(pushed) - HistoryCap)..(sliceIndexOf(pushed) - 1) :
       pushed[k + 1].kind = "results"]

\* run() after its loop (agent.ts 103-109): saveConversation returns at once
\* for an empty Conversation, else it waits for the write
drain(o) ==
  IF Len(o.conversation) = 0
  THEN [o EXCEPT !.pc = "done"]
  ELSE [o EXCEPT !.pc = "saving",
                 !.writes = Append(@, TranscriptWrite("run", o.conversation))]

\* agent.ts 72-94: append the user message, bound the history, start
\* runInference and its first backend call
startTurn(o) ==
  LET pushed == Append(o.conversation, UserText) IN
  [o EXCEPT !.conversation = boundHistory(pushed),
            !.lastCut = IF Len(pushed) > HistoryCap
                        THEN cutOf(pushed)
                        ELSE NoCut,
            !.toolTurns = 0,
            !.currentContent = NoContent,
            !.pc = "inferring",
            !.calls = 1,
            !.dispatches = 0]

\* (variant: the line is compared without trimming)
isBlankUntrimmed(text) == text = <<>>

\* trimmedInput === "" (agent.ts 59-63)
isBlank(text) == trim(text) = <<>>

\* trimmedInput.toLowerCase() === "exit" || ... === "quit" (agent.ts 65-70)
isExitWord(t) ==
  toLowerCase(t) \in {<<"e", "x", "i", "t">>, <<"q", "u", "i", "t">>}

\* the body of run()'s loop from the read of a line (agent.ts 52-94),
\* repeated while buffered lines keep the read from waiting
RECURSIVE readNext(_)
RECURSIVE handleInput(_, _)
readNext(o) ==
  LET g == getUserMessage(o.lines, o.resolvePromise, RunReader) IN
  IF g.ready
  THEN handleInput([o EXCEPT !.lines = g.lines], g.value)
  ELSE [o EXCEPT !.pc = "await_line", !.resolvePromise = g.resolvePromise]

handleInput(o, userInput) ==
  IF userInput.eof THEN drain(o)
  ELSE IF isBlank(userInput.text) THEN readNext(o)
  ELSE IF isExitWord(trim(userInput.text)) THEN drain(o)
  ELSE startTurn(o)

\* (variant: run() loops without appending the assistant message)
endTurnNoAppend(o, content) == readNext(o)

\* runInference returns `content`; run() appends it as the assistant
\* message and loops (agent.ts 191, 95-101)
endTurn(o, content) ==
  readNext([o EXCEPT !.conversation = Append(@, AssistantMsg(content))])

(***************************************************************************)
(* Agent.runInference                                                      *)
(***************************************************************************)
\* the executions of a finished batch that are still running
RECURSIVE leftovers(_)
leftovers(rs) ==
  IF rs = <<>> THEN <<>>
  ELSE (IF Head(rs).name = "edit_file" /\ Head(rs).ex.stage # "none"
        THEN <<Head(rs)>> ELSE <<>>) \o leftovers(Tail(rs))

\* the batch as executeTools leaves it behind: its executions that still
\* run are no longer its concern
detached(rs) == [i \in 1..Len(rs) |-> [rs[i] EXCEPT !.ex = NoExec]]

\* after a request of the batch settles: Promise.all rejects with the first
\* rejection, and run() ends with it; when every request has resolved, the
\* assistant message and the tool results are appended and the next
\* backend call is made (agent.ts 169-179, 138-154).  reqs keeps the batch
\* until the next one is dispatched.
afterBatch(o) ==
  IF o.pc # "tools" THEN o
  ELSE IF anyRejected(o.reqs)
  THEN [o EXCEPT !.pc = "failed"]
  ELSE IF allResolved(o.reqs)
  THEN [o EXCEPT !.conversation =
                   @ \o <<AssistantMsg(o.currentContent),
                          ToolResultsMsg(resultsOf(o.reqs))>>,
                 !.bg = @ \o leftovers(o.reqs),
                 !.reqs = detached(o.reqs),
                 !.pc = "inferring",
                 !.calls = @ + 1]
  ELSE o

\* the response has arrived (agent.ts 154-191)
onResponse(o, response) ==
  LET content == response.content
      toolUseBlocks == content.blocks
      o1 == [o EXCEPT !.currentContent = content]
  IN
  IF Len(toolUseBlocks) > 0 /\ response.stop_reason = "tool_use"
  THEN LET o2 == [o1 EXCEPT !.toolTurns = @ + 1] IN
       IF turnLimitExceeded(o2.toolTurns)
       THEN endTurn([o2 EXCEPT !.printed = Printed(TRUE, FALSE)], content)
       ELSE LET d == dispatch(toolUseBlocks, 1, o2.lines,
                              o2.resolvePromise, <<>>)
            IN afterBatch([o2 EXCEPT !.printed = Printed(FALSE, FALSE),
                                     !.reqs = d.reqs,
                                     !.lines = d.lines,
                                     !.resolvePromise = d.resolvePromise,
                                     !.pc = "tools",
                                     !.dispatches = @ + 1])
  ELSE endTurn([o1 EXCEPT !.printed = Printed(FALSE, content.text)], content)

(***************************************************************************)
(* The environment: what the operator types and what the backend asks for  *)
(***************************************************************************)
Hi == <<"h", "i">>
Blank == <<" ">>
YesLine == <<" ", "Y", "e", "s", " ">>
YLine == <<"y">>
NoLine == <<"n", "o">>
QuitLine == <<"Q", "U", "I", "T">>
ExitLine == <<"e", "x", "i", "t", " ">>

Scripts ==
  {<<>>, <<Hi>>, <<Hi, YesLine>>, <<Hi, NoLine>>, <<Hi, YLine, YesLine>>,
   <<Blank, Hi, QuitLine>>, <<Hi, Hi>>, <<Hi, YesLine, ExitLine>>}

TargetPath == JStr(<<"f">>)

EditReq(old, new, mode, confirm) ==
  [name |-> "edit_file",
   input |-> MkInput(TargetPath, old, new, mode, confirm, Absent)]

\* the values a backend may send in the confirm field
Confirms == {Absent, JBool(FALSE), JBool(TRUE), JStr(<<"y">>), JNum(1)}

ReplaceB(c) == EditReq(JStr(<<"b">>), JStr(<<"B">>), "", c)
InsertBefore(c) == EditReq(JStr(<<"b">>), JStr(<<"X">>), "insert_before", c)
InsertAfter(c) == EditReq(JStr(<<"b">>), JStr(<<"X">>), "insert_after", c)
AppendX(c) == EditReq(Absent, JStr(<<"X">>), "append", c)
CreateX(c) == EditReq(Absent, JStr(<<"X">>), "", c)

Datetime ==
  [name |-> "get_current_datetime",
   input |-> MkInput(Absent, Absent, Absent, "", Absent, Absent)]
Bash ==
  [name |-> "use_bash",
   input |-> MkInput(Absent, Absent, Absent, "", Absent, JStr(<<"l", "s">>))]
UnknownTool == [name |-> "Edit_File", input |-> ReplaceB(JBool(TRUE)).input]
ArrayInput == [name |-> "edit_file", input |-> NonObject("array")]
NullInput == [name |-> "use_bash", input |-> NonObject("null")]
ScalarInput == [name |-> "edit_file", input |-> NonObject("string")]
MissingNewStr ==
  [name |-> "edit_file",
   input |-> MkInput(TargetPath, Absent, Absent, "", JBool(TRUE), Absent)]
NumberPath ==
  [name |-> "edit_file",
   input |-> MkInput(JNum(7), Absent, JStr(<<"X">>), "", JBool(TRUE), Absent)]
Ambiguous(c) == EditReq(JStr(<<"\n">>), JStr(<<"X">>), "", c)
NotFound(c) == EditReq(JStr(<<"z">>), JStr(<<"X">>), "", c)
BadMode == EditReq(JStr(<<"b">>), JStr(<<"X">>), "delete", JBool(TRUE))

\* the batches (tool_use blocks of one response, without ids) the backend
\* may ask for
RichMenu ==
  {<<r>> : r \in {ReplaceB(c) : c \in Confirms}}
  \cup {<<r>> : r \in {InsertBefore(c) : c \in Confirms}}
  \cup {<<r>> : r \in {InsertAfter(c) : c \in Confirms}}
  \cup {<<r>> : r \in {AppendX(c) : c \in Confirms}}
  \cup {<<r>> : r \in {CreateX(c) : c \in Confirms}}
  \cup {<<Bash>>, <<UnknownTool>>, <<ArrayInput>>, <<NullInput>>, <<ScalarInput>>,
        <<MissingNewStr>>, <<NumberPath>>, <<BadMode>>,
        <<Ambiguous(JBool(TRUE))>>, <<NotFound(JBool(TRUE))>>}
  \cup {<<ReplaceB(JBool(TRUE)), AppendX(JBool(TRUE))>>,
        <<Bash, ReplaceB(JBool(TRUE))>>,
        <<UnknownTool, Bash>>,
        <<NumberPath, Datetime>>,
        <<AppendX(JBool(TRUE)), AppendX(JStr(<<"y">>))>>,
        <<Bash, Datetime, MissingNewStr>>}

PlainBatch == <<Datetime>>

\* texts of up to n characters over a letter and the line break
Texts(n) == UNION {[1..k -> {"a", "\n"}] : k \in 0..n}

\* the edit_file requests tried on every file content: every mode, every
\* confirm value, old_str absent or any non-empty text
EditMenu ==
  {EditReq(old, JStr(<<"X">>), mode, c) :
     old \in {Absent} \cup {JStr(t) : t \in Texts(MaxOld) \ {<<>>}},
     mode \in {""} \cup validModes,
     c \in Confirms}

\* confirmed edits whose new_str holds a dollar sign: alone, and followed by
\* '&', '$', a backtick or a quote
DollarTexts ==
  {<<"$">>, <<"$", "&">>, <<"$", "$">>, <<"$", "`">>, <<"$", "'">>}

DollarMenu ==
  {EditReq(JStr(old), JStr(new), mode, JBool(TRUE)) :
     old \in Texts(MaxOld) \ {<<>>},
     new \in DollarTexts,
     mode \in {"", "insert_before", "insert_after"}}

\* the backend puts its ids on the blocks
withIds(batch, base) ==
  [i \in 1..Len(batch) |->
     [id |-> base + i, name |-> batch[i].name, input |-> batch[i].input]]

(***************************************************************************)
(* Initial state: main has built the input handler and the Agent, and      *)
(* run() waits for its first line                                          *)
(***************************************************************************)
InitProgram ==
  /\ closed = FALSE
  /\ lines = <<>>
  /\ resolvePromise = RunReader
  /\ pc = "await_line"
  /\ conversation = <<>>
  /\ toolTurns = 0
  /\ currentContent = NoContent
  /\ reqs = <<>>
  /\ bg = <<>>
  /\ fileWrites = <<>>
  /\ isShuttingDown = FALSE
  /\ sigSaving = FALSE
  /\ exited = FALSE
  /\ writes = <<>>
  /\ nextId = 0
  /\ calls = 0
  /\ dispatches = 0
  /\ lastCut = NoCut
  /\ printed = Printed(FALSE, FALSE)

\* no call of generateDiff is looked at
NoDiff ==
  [oldContent |-> <<>>, newContent |-> <<>>, st |-> "none",
   changes |-> <<>>, marker |-> FALSE, blocks |-> <<>>]

\* runs about tool batches: few tool turns, any batch of RichMenu
Init ==
  /\ InitProgram
  /\ tools = Catalog
  /\ diff = NoDiff
  /\ stdin \in Scripts
  /\ disk \in {DiskWithFile, DiskEmpty}
  /\ richLeft = MaxRichBatches
  /\ asksLeft = MaxToolAsks
  /\ sigLeft = 0

\* runs about long conversations: the backend asks for the plain batch as
\* often as it likes
InitTurns ==
  /\ InitProgram
  /\ tools = Catalog
  /\ diff = NoDiff
  /\ stdin = [i \in 1..MaxChatLines |-> Hi]
  /\ disk = DiskWithFile
  /\ richLeft = 0
  /\ asksLeft = MaxChatLines * (MAX_TOOL_TURNS + 1)
  /\ sigLeft = 0

\* runs about shutdown: the operator sends signals
InitSignals ==
  /\ InitProgram
  /\ tools = Catalog
  /\ diff = NoDiff
  /\ stdin \in {<<>>, <<Hi>>, <<Hi, QuitLine>>, <<Hi, Hi>>}
  /\ disk = DiskWithFile
  /\ richLeft = 0
  /\ asksLeft = 1
  /\ sigLeft = MaxSignals

(***************************************************************************)
(* Actions: the input stream                                               *)
(***************************************************************************)
\* the approval read of request i is the one the stored resolver belongs to
awaitsApproval(i) == i \in 1..Len(reqs) /\ reqs[i].st = "approval"

\* rl.on("line"): the stored resolver gets the line and is cleared, else the
\* line is buffered.  The reader's continuation runs in the same task.
OnLine ==
  /\ ~exited /\ ~closed /\ stdin # <<>>
  /\ stdin' = Tail(stdin)
  /\ LET line == Head(stdin)
         o == [Orch EXCEPT !.resolvePromise = NoReader]
     IN IF resolvePromise = NoReader
        THEN SetOrch([Orch EXCEPT !.lines = Append(@, line)])
        ELSE IF resolvePromise = RunReader
        THEN SetOrch(IF pc = "await_line" THEN handleInput(o, Line(line))
                     ELSE o)
        ELSE IF awaitsApproval(resolvePromise)
        THEN SetOrch(afterBatch(
               [o EXCEPT !.reqs[resolvePromise] =
                           afterApproval(@, Line(line))]))
        ELSE SetOrch(o)
  /\ UNCHANGED <<tools, diff, closed, disk, fileWrites, isShuttingDown, sigSaving, exited,
                 nextId, richLeft, asksLeft, sigLeft>>

\* rl.on("close"): the stored resolver, if any, gets null; nothing else is
\* recorded
OnClose ==
  /\ ~exited /\ ~closed /\ stdin = <<>>
  /\ closed' = TRUE
  /\ IF resolvePromise = RunReader /\ pc = "await_line"
     THEN SetOrch(handleInput(Orch, NullLine))
     ELSE IF awaitsApproval(resolvePromise)
     THEN SetOrch(afterBatch(
            [Orch EXCEPT !.reqs[resolvePromise] =
                           afterApproval(@, NullLine)]))
     ELSE SetOrch(Orch)
  /\ UNCHANGED <<tools, diff, stdin, disk, fileWrites, isShuttingDown, sigSaving, exited,
                 nextId, richLeft, asksLeft, sigLeft>>

(***************************************************************************)
(* Actions: the backend                                                    *)
(***************************************************************************)
Respond(response, used, rich) ==
  /\ SetOrch(onResponse(Orch, response))
  /\ nextId' = nextId + used
  /\ richLeft' = richLeft - rich
  /\ asksLeft' = asksLeft - (IF used > 0 /\ response.stop_reason = "tool_use"
                             THEN 1 ELSE 0)
  /\ UNCHANGED <<tools, diff, stdin, closed, disk, fileWrites, isShuttingDown, sigSaving,
                 exited, sigLeft>>

\* a final answer: text, no tool_use block
BackendAnswers ==
  /\ ~exited /\ pc = "inferring"
  /\ Respond(Response(TRUE, <<>>, "end_turn"), 0, 0)

\* tool_use blocks with stop reason tool_use
BackendAsksTools ==
  /\ ~exited /\ pc = "inferring" /\ asksLeft > 0
  /\ \E batch \in {PlainBatch} \cup (IF richLeft > 0 THEN RichMenu ELSE {}) :
       Respond(Response(batch = PlainBatch, withIds(batch, nextId),
                        "tool_use"),
               Len(batch),
               IF batch = PlainBatch THEN 0 ELSE 1)

\* a response cut off by the token limit: text and a tool_use block, stop
\* reason max_tokens
BackendCutOff ==
  /\ ~exited /\ pc = "inferring"
  /\ Respond(Response(TRUE, withIds(PlainBatch, nextId), "max_tokens"),
             Len(PlainBatch), 0)

\* client.messages.create rejects: runInference and run reject, run's
\* finally block removes the signal handlers (agent.ts 154, 106-109)
BackendFails ==
  /\ ~exited /\ pc = "inferring"
  /\ pc' = "failed"
  /\ UNCHANGED <<tools, diff, stdin, closed, lines, resolvePromise, conversation,
                 toolTurns, currentContent, reqs, bg, disk, fileWrites,
                 isShuttingDown, sigSaving, exited, writes, nextId, richLeft, asksLeft,
                 sigLeft, calls, dispatches, lastCut, printed>>

(***************************************************************************)
(* Actions: tool executions and their timers                               *)
(***************************************************************************)
\* one await of an execute body settles
stepOf(r, d) ==
  IF r.name = "edit_file"
  THEN editStep(r.ex, r.input, d)
  ELSE [disk |-> d, ex |-> NoExec, ret |-> Ret("text", "")]

logWrite(log, r) ==
  IF r.name = "edit_file" /\ r.ex.stage \in {"write", "mkdir"}
  THEN Append(log, [id |-> r.id, approved |-> r.approved, op |-> r.ex.stage])
  ELSE log

\* an await inside request i's execute settles; if the execute returns and
\* the race is still open, the request resolves with its text
ExecStep ==
  /\ ~exited
  /\ \E i \in 1..Len(reqs) :
       /\ reqs[i].ex.stage # "none"
       /\ LET req == reqs[i]
              s == stepOf(req, disk)
              r1 == [req EXCEPT !.ex = s.ex]
              r2 == IF req.st = "exec" /\ s.ret.kind # "none"
                    THEN resolved(r1, toolResult(r1, s.ret))
                    ELSE r1
          IN /\ disk' = s.disk
             /\ fileWrites' = logWrite(fileWrites, req)
             /\ SetOrch(afterBatch([Orch EXCEPT !.reqs[i] = r2]))
  /\ UNCHANGED <<tools, diff, stdin, closed, isShuttingDown, sigSaving, exited, nextId,
                 richLeft, asksLeft, sigLeft>>

\* the 30 s timer of request i fires before its execute settled: the race
\* rejects, the catch block makes the timeout result; execute runs on
TimeoutFires ==
  /\ ~exited
  /\ \E i \in 1..Len(reqs) :
       /\ reqs[i].st = "exec"
       /\ SetOrch(afterBatch([Orch EXCEPT !.reqs = onTimeout(@, i)]))
  /\ UNCHANGED <<tools, diff, stdin, closed, disk, fileWrites, isShuttingDown, sigSaving,
                 exited, nextId, richLeft, asksLeft, sigLeft>>

\* an execute that outlived its batch goes on
BgStep ==
  /\ ~exited
  /\ \E j \in 1..Len(bg) :
       LET s == stepOf(bg[j], disk) IN
       /\ disk' = s.disk
       /\ fileWrites' = logWrite(fileWrites, bg[j])
       /\ bg' = IF s.ex.stage = "none"
                THEN SubSeq(bg, 1, j - 1) \o SubSeq(bg, j + 1, Len(bg))
                ELSE [bg EXCEPT ![j].ex = s.ex]
  /\ UNCHANGED <<tools, diff, stdin, closed, lines, resolvePromise, pc, conversation,
                 toolTurns, currentContent, reqs, isShuttingDown, sigSaving,
                 exited, writes, nextId, richLeft, asksLeft, sigLeft, calls,
                 dispatches, lastCut, printed>>

(***************************************************************************)
(* Actions: transcript writes and signals                                  *)
(***************************************************************************)
\* the pending write started by `by` settles
settleWrite(ws, by, ok) ==
  [k \in 1..Len(ws) |->
     IF ws[k].by = by /\ ws[k].st = "writing"
     THEN [ws[k] EXCEPT !.st = IF ok THEN "saved" ELSE "failed"]
     ELSE ws[k]]

\* (variant: a failed write escapes saveConversation and run() throws)
runAfterSaveThrows(ok) == IF ok THEN "done" ELSE "failed"

\* where run() is after its saveConversation has settled: the write's error
\* is caught and logged (agent.ts 115-127), so run() returns either way
runAfterSave(ok) == "done"

\* run()'s saveConversation ends (written, or the error logged); run prints
\* Goodbye, removes the handlers and returns (agent.ts 104-109, 120-128)
RunSaveSettles ==
  /\ ~exited /\ pc = "saving"
  /\ \E ok \in BOOLEAN :
       /\ writes' = settleWrite(writes, "run", ok)
       /\ pc' = runAfterSave(ok)
  /\ UNCHANGED <<tools, diff, stdin, closed, lines, resolvePromise, conversation,
                 toolTurns, currentContent, reqs, bg, disk, fileWrites,
                 isShuttingDown, sigSaving, exited, nextId, richLeft, asksLeft, sigLeft,
                 calls, dispatches, lastCut, printed>>

\* (variant: no finally block, the handlers are removed only when run()
\* returns normally)
handlersInstalledUnlessReturned == pc # "done"

\* process.on at agent.ts 45-46, process.off in run()'s finally block
\* (agent.ts 106-109)
handlersInstalled == pc \notin {"done", "failed"}

\* SIGINT / SIGTERM while run()'s handlers are installed (agent.ts 33-43)
handleSignal ==
  /\ ~exited /\ sigLeft > 0 /\ handlersInstalled
  /\ sigLeft' = sigLeft - 1
  /\ IF isShuttingDown
     THEN UNCHANGED <<isShuttingDown, sigSaving, exited, writes>>
     ELSE /\ isShuttingDown' = TRUE
          /\ IF Len(conversation) > 0
             THEN /\ sigSaving' = TRUE
                  /\ writes' =
                       Append(writes, TranscriptWrite("signal", conversation))
                  /\ UNCHANGED exited
             ELSE /\ exited' = TRUE
                  /\ UNCHANGED <<sigSaving, writes>>
  /\ UNCHANGED <<tools, diff, stdin, closed, lines, resolvePromise, pc, conversation,
                 toolTurns, currentContent, reqs, bg, disk, fileWrites, nextId,
                 richLeft, asksLeft, calls, dispatches, lastCut, printed>>

\* the handler's saveConversation ends; process.exit(0) (agent.ts 40-42)
SignalSaveSettles ==
  /\ ~exited /\ sigSaving
  /\ \E ok \in BOOLEAN : writes' = settleWrite(writes, "signal", ok)
  /\ sigSaving' = FALSE
  /\ exited' = TRUE
  /\ UNCHANGED <<tools, diff, stdin, closed, lines, resolvePromise, pc, conversation,
                 toolTurns, currentContent, reqs, bg, disk, fileWrites,
                 isShuttingDown, nextId, richLeft, asksLeft, sigLeft, calls, dispatches,
                 lastCut, printed>>

\* a signal after run() removed its handlers: the default action ends the
\* process
KilledBySignal ==
  /\ ~exited /\ sigLeft > 0 /\ ~handlersInstalled
  /\ sigLeft' = sigLeft - 1
  /\ exited' = TRUE
  /\ UNCHANGED <<tools, diff, stdin, closed, lines, resolvePromise, pc, conversation,
                 toolTurns, currentContent, reqs, bg, disk, fileWrites,
                 isShuttingDown, sigSaving, writes, nextId, richLeft, asksLeft, calls,
                 dispatches, lastCut, printed>>

Next ==
  \/ OnLine
  \/ OnClose
  \/ BackendAnswers
  \/ BackendAsksTools
  \/ BackendCutOff
  \/ BackendFails
  \/ ExecStep
  \/ TimeoutFires
  \/ BgStep
  \/ RunSaveSettles

Spec == Init /\ [][Next]_vars

NextTurns ==
  \/ OnLine
  \/ OnClose
  \/ BackendAnswers
  \/ BackendAsksTools
  \/ BackendCutOff
  \/ BackendFails
  \/ RunSaveSettles

SpecTurns == InitTurns /\ [][NextTurns]_vars

NextSignals ==
  \/ OnLine
  \/ OnClose
  \/ BackendAnswers
  \/ BackendAsksTools
  \/ BackendCutOff
  \/ BackendFails
  \/ RunSaveSettles
  \/ handleSignal
  \/ SignalSaveSettles
  \/ KilledBySignal

SpecSignals == InitSignals /\ [][NextSignals]_vars

\* runs about progress: one user turn and what the operator may type into
\* it, a file on disk, one rich batch
InitFair ==
  /\ InitProgram
  /\ tools = Catalog
  /\ diff = NoDiff
  /\ stdin \in {<<Hi>>, <<Hi, YLine, YesLine>>, <<Hi, NoLine>>}
  /\ disk = DiskWithFile
  /\ richLeft = MaxRichBatches
  /\ asksLeft = MaxRichBatches
  /\ sigLeft = 0

\* runs of an Agent constructed with or without edit_file in its tool list
InitCatalog ==
  /\ InitProgram
  /\ diff = NoDiff
  /\ tools \in {Catalog, Catalog \ {"edit_file"}}
  /\ stdin \in {<<Hi>>, <<Hi, YesLine>>, <<Hi, NoLine>>}
  /\ disk = DiskWithFile
  /\ richLeft = MaxRichBatches
  /\ asksLeft = MaxRichBatches
  /\ sigLeft = 0

SpecCatalog == InitCatalog /\ [][Next]_vars

\* runs about edit_file alone: one request out of EditMenu, on no file or
\* on a file of any content
InitEdit ==
  /\ InitProgram
  /\ tools = Catalog
  /\ diff = NoDiff
  /\ stdin \in {<<Hi>>, <<Hi, YLine>>}
  /\ disk \in {DiskEmpty}
              \cup {[exists |-> TRUE, dir |-> TRUE, content |-> t] :
                      t \in Texts(MaxText)}
  /\ richLeft = 0
  /\ asksLeft = 1
  /\ sigLeft = 0

\* one tool_use block asking for an edit
BackendAsksEdit ==
  /\ ~exited /\ pc = "inferring" /\ asksLeft > 0
  /\ \E r \in EditMenu \cup DollarMenu :
       Respond(Response(FALSE, withIds(<<r>>, nextId), "tool_use"), 1, 0)

NextEdit ==
  \/ OnLine
  \/ OnClose
  \/ BackendAnswers
  \/ BackendAsksEdit
  \/ ExecStep
  \/ TimeoutFires
  \/ BgStep
  \/ RunSaveSettles

SpecEdit == InitEdit /\ [][NextEdit]_vars

\* texts of up to n characters over two letters and the line break
DiffTexts(n) == UNION {[1..k -> {"a", "b", "\n"}] : k \in 0..n}

\* n lines, each the letter x
Repeat(x, n) == [k \in 1..(2 * n) |-> IF k % 2 = 1 THEN x ELSE "\n"]

\* pairs of texts whose differing regions are as long as the lookahead goes
\* and longer
LongPairs ==
  {<<<<"a">>, Repeat("b", LookAheadLimit) \o <<"a">>>>,
   <<Repeat("b", LookAheadLimit) \o <<"a">>, <<"a">>>>,
   <<Repeat("b", LookAheadLimit - 1) \o <<"a">>, <<"a">>>>,
   <<<<"a">>, Repeat("b", LookAheadLimit - 1) \o <<"a">>>>,
   <<Repeat("a", LookAheadLimit - 20) \o <<"c">>,
     Repeat("b", LookAheadLimit - 20) \o <<"c">>>>,
   <<Repeat("a", LookAheadLimit) \o <<"c">>,
     Repeat("a", LookAheadLimit) \o <<"c">>>>}

\* runs about generateDiff alone: a call with any two short texts, or with
\* one of the long pairs
InitDiff ==
  /\ InitProgram
  /\ tools = Catalog
  /\ stdin = <<>>
  /\ disk = DiskEmpty
  /\ richLeft = 0
  /\ asksLeft = 0
  /\ sigLeft = 0
  /\ \E pair \in (DiffTexts(MaxDiffText) \X DiffTexts(MaxDiffText))
                  \cup LongPairs :
       diff = [NoDiff EXCEPT !.oldContent = pair[1], !.newContent = pair[2],
                             !.st = "called"]

\* generateDiff(oldContent, newContent, ...) runs
GenerateDiff ==
  /\ diff.st = "called"
  /\ diff' = [diff EXCEPT
               !.st = "returned",
               !.changes = generateDiff(diff.oldContent,
                                        diff.newContent).changes,
               !.marker = generateDiff(diff.oldContent,
                                       diff.newContent).marker,
               !.blocks = generateDiff(diff.oldContent,
                                       diff.newContent).blocks]
  /\ UNCHANGED <<tools, stdin, closed, lines, resolvePromise, pc,
                 conversation, toolTurns, currentContent, reqs, bg, disk,
                 fileWrites, isShuttingDown, sigSaving, exited, writes,
                 nextId, richLeft, asksLeft, sigLeft, calls, dispatches,
                 lastCut, printed>>

NextDiff == GenerateDiff

SpecDiff == InitDiff /\ [][NextDiff]_vars

\* Every task that is ready is eventually run: the operator types what is
\* left of the script and then ends the input, the backend replies, every
\* pending filesystem operation settles, every armed timer fires.
Fairness ==
  /\ WF_vars(OnLine)
  /\ WF_vars(OnClose)
  /\ WF_vars(BackendAnswers \/ BackendAsksTools \/ BackendCutOff
             \/ BackendFails)
  /\ WF_vars(ExecStep)
  /\ WF_vars(TimeoutFires)
  /\ WF_vars(BgStep)
  /\ WF_vars(RunSaveSettles)

FairSpec == InitFair /\ [][Next]_vars /\ Fairness

(***************************************************************************)
(* Properties                                                              *)
(***************************************************************************)
\* every assistant message of conv that holds a tool_use block is followed
\* at once by a user message of tool results
pairingKept(conv) ==
  \A i \in 1..Len(conv) :
    hasToolUse(conv[i]) =>
      /\ i < Len(conv)
      /\ conv[i + 1].role = "user"
      /\ conv[i + 1].kind = "results"

\* C1: whenever the Conversation is in a request to the backend, and in
\* every transcript write, each assistant message with a tool_use block is
\* immediately followed by a user message of tool_result blocks.
C1_ToolUseAlwaysAnswered ==
  /\ pc = "inferring" => pairingKept(conversation)
  /\ \A k \in 1..Len(writes) : pairingKept(writes[k].conv)

\* C2: every write of the target file by edit_file was approved by the
\* operator for the request that wrote.
C2_WritesAreApproved ==
  \A k \in 1..Len(fileWrites) :
    fileWrites[k].op = "write" => fileWrites[k].approved

\* the operator's reply to request r was not an approval: end of input, or
\* a line other than the approving lines the operator types in this model
declined(r) ==
  /\ r.answered
  /\ r.reply.eof \/ r.reply.text \notin {YesLine, YLine}

wroteToDisk(r) == \E k \in 1..Len(fileWrites) : fileWrites[k].id = r.id

\* request r is an edit_file request with confirm === true and a valid
\* input whose approval prompt got a reply that is not an approval
declinedEdit(r) ==
  /\ r.name = "edit_file"
  /\ IsTrue(r.input.confirm)
  /\ {"path", "new_str"} \subseteq r.input.keys
  /\ declined(r)

\* every declined request of the batch has not had execute called, has
\* written nothing, and is resolved with the cancellation error
declinedAreCancelled ==
  \A i \in 1..Len(reqs) :
    declinedEdit(reqs[i])
    => /\ ~reqs[i].executed
       /\ reqs[i].ex = NoExec
       /\ ~wroteToDisk(reqs[i])
       /\ reqs[i].st = "done"
       /\ reqs[i].result.is_error
       /\ reqs[i].result.content = "Edit cancelled by user"
       /\ reqs[i].result.tool_use_id = reqs[i].id

\* C3: an edit_file request with confirm === true and a valid input whose
\* approval prompt got a reply other than yes / y (end of input included)
\* never has execute called, writes nothing, and resolves with the
\* cancellation error; the step that takes the reply leaves the disk as it
\* was.
C3_DeclinedEditDoesNothing ==
  [][/\ declinedAreCancelled'
     /\ (\E i \in 1..Len(reqs') :
           /\ declinedEdit(reqs'[i])
           /\ \A j \in 1..Len(reqs) :
                reqs[j].id = reqs'[i].id => ~reqs[j].answered)
        => disk' = disk /\ fileWrites' = fileWrites]_vars

\* a request was declined by a line that is not an approval
C3_Witness ==
  \E i \in 1..Len(reqs) :
    /\ declinedEdit(reqs[i])
    /\ ~reqs[i].reply.eof
    /\ reqs[i].st = "done"
    /\ reqs[i].result.content = "Edit cancelled by user"

\* C4: in a user turn at most 10 batches are dispatched and at most 11
\* backend calls are made; once the counter has passed 10 the turn's inner
\* loop is over (no batch in flight, no further backend call of the turn).
C4_TurnLimit ==
  /\ dispatches <= 10
  /\ calls <= 11
  /\ toolTurns <= 11
  /\ toolTurns > 10 => pc \notin {"inferring", "tools"}

\* the 11th consecutive tool_use response of a turn aborted the loop
C4_Witness == toolTurns = 11 /\ dispatches = 10 /\ calls = 11

\* C5: every batch handed to executeTools eventually completes, given that
\* the operator types the rest of the script and ends the input, and that
\* every execute settles or its timer fires.
C5_BatchCompletes == (pc = "tools") ~> (pc # "tools")

\* C6: when the input stream ends while a backend call is in flight, run()
\* eventually reaches Draining (the save, or its return), unless a backend
\* failure ended it.
C6_EofLeadsToDraining ==
  (closed /\ pc = "inferring") ~> (pc \in {"saving", "done", "failed"})

\* C7: in a run at most one transcript write is made.
C7_TranscriptWrittenOnce == Len(writes) <= 1

\* C8: the Conversation never starts with a user message of tool results,
\* in particular after the history-bounding step has cut it.
C8_NeverStartsWithToolResults ==
  conversation # <<>> => conversation[1].kind # "results"

\* the history-bounding step cut a Conversation of more than 50 messages
\* and walked forward over a tool-result message to find its boundary
C8_Witness ==
  /\ lastCut.len > 50
  /\ lastCut.overResults
  /\ lastCut.at > lastCut.len - 50
  /\ Len(conversation) >= lastCut.len - lastCut.at

\* the last two messages of conv are the assistant message with the tool_use
\* ids of rs and the tool results of rs, error flags included
endsWithBatch(conv, rs) ==
  /\ Len(conv) >= 2
  /\ conv[Len(conv) - 1].role = "assistant"
  /\ conv[Len(conv) - 1].ids = [i \in 1..Len(rs) |-> rs[i].id]
  /\ conv[Len(conv)].kind = "results"
  /\ conv[Len(conv)].ids = [i \in 1..Len(rs) |-> rs[i].result.tool_use_id]
  /\ conv[Len(conv)].errs = [i \in 1..Len(rs) |-> rs[i].result.is_error]

\* C9: when executeTools is over (a batch that was in flight no longer is,
\* or a dispatched batch was over at once), whatever failed in it, run() has
\* not ended: the results are appended and the next backend call of the same
\* turn is in flight.
C9_ToolFailureNeverEndsLoop ==
  [][(\/ pc = "tools" /\ pc' # "tools"
      \/ dispatches' = dispatches + 1 /\ pc' # "tools")
     => /\ pc' = "inferring"
        /\ calls' = calls + 1
        /\ ~anyRejected(reqs')
        /\ allResolved(reqs')
        /\ endsWithBatch(conversation', reqs')]_vars

\* a batch with a timed-out request was appended and the next call made
C9_Witness ==
  /\ pc = "inferring"
  /\ calls >= 2
  /\ \E i \in 1..Len(reqs) :
       /\ reqs[i].result.is_error
       /\ reqs[i].result.content = "Tool execution timed out after 30s"
  /\ endsWithBatch(conversation, reqs)

\* request r timed out
timedOut(r) == r.st = "done" /\ r.result.content = TimeoutMessage

\* request r resolved with the text its own execute returned, not as an
\* error
ownOutput(r) ==
  /\ r.st = "done"
  /\ r.result.tool_use_id = r.id
  /\ ~r.result.is_error
  /\ r.result.out.kind # "none"
  /\ r.result.content = r.result.out.kind
  /\ r.name = "edit_file" /\ r.result.out.kind = "success"
     => r.result.out.action
          \in {"created", "appended", actionLabel(editMode(r.input))}
  /\ r.name # "edit_file" => r.result.out = Ret("text", "")

\* C11: the timer of one request firing makes that request's result the
\* timeout error and leaves every sibling as it was (a sibling still
\* executing goes on executing); a sibling whose execute returns resolves
\* with its own output, not as an error; and when the batch is over the
\* tool-result message holds one result per request with only the error
\* flags the requests' own results carry.
C11_TimeoutIsolated ==
  [][/\ \A i \in 1..Len(reqs) :
          (/\ Len(reqs') = Len(reqs)
           /\ reqs[i].st = "exec"
           /\ timedOut(reqs'[i]))
          => /\ reqs'[i].result.is_error
             /\ reqs'[i].result.tool_use_id = reqs[i].id
             /\ \A j \in 1..Len(reqs) :
                  j # i => /\ reqs'[j].st = reqs[j].st
                           /\ reqs'[j].result = reqs[j].result
                           /\ reqs'[j].id = reqs[j].id
     /\ \A j \in 1..Len(reqs) :
          (/\ Len(reqs') = Len(reqs)
           /\ reqs[j].st = "exec"
           /\ reqs'[j].st = "done"
           /\ ~timedOut(reqs'[j]))
          => ownOutput(reqs'[j])
     /\ (pc = "tools" /\ pc' # "tools" /\ \E i \in 1..Len(reqs') :
                                            timedOut(reqs'[i]))
        => endsWithBatch(conversation', reqs')]_vars

\* a batch of two or more is over in which exactly one request timed out
\* and every other request resolved with its own output
C11_Witness ==
  /\ pc = "inferring"
  /\ Len(reqs) >= 2
  /\ endsWithBatch(conversation, reqs)
  /\ \E i \in 1..Len(reqs) :
       /\ timedOut(reqs[i])
       /\ \A j \in 1..Len(reqs) : j # i => ownOutput(reqs[j])
  /\ \E j \in 1..Len(reqs) :
       reqs[j].name = "edit_file" /\ reqs[j].result.out.kind = "success"

\* C12: a request whose tool body reported a failure, by rejecting or by
\* returning an error text, is resolved with a result whose is_error flag
\* is set.
C12_ToolFailureIsErrorResult ==
  \A i \in 1..Len(reqs) :
    (/\ reqs[i].st = "done"
     /\ reqs[i].executed
     /\ \/ reqs[i].result.out.kind = "error"
        \/ reqs[i].result.content = "TypeError")
    => reqs[i].result.is_error

\* C13: a request that names a tool the Agent does not have is resolved
\* with the not-found error (so not with a validation message), was never
\* prompted for approval (it made no read of the operator's input), never
\* had execute called and wrote nothing.
C13_UnknownToolInvokesNothing ==
  \A i \in 1..Len(reqs) :
    reqs[i].name \notin tools
    => /\ reqs[i].st = "done"
       /\ reqs[i].result.is_error
       /\ reqs[i].result.content = "Error: Tool not found"
       /\ reqs[i].result.tool_use_id = reqs[i].id
       /\ ~reqs[i].asked
       /\ ~reqs[i].answered
       /\ ~reqs[i].executed
       /\ reqs[i].ex = NoExec
       /\ ~wroteToDisk(reqs[i])

\* an edit_file request with confirm === true met an Agent without
\* edit_file, with a line of the operator to be had
C13_Witness ==
  /\ "edit_file" \notin tools
  /\ \E i \in 1..Len(reqs) :
       /\ reqs[i].name = "edit_file"
       /\ IsTrue(reqs[i].input.confirm)
       /\ {"path", "new_str"} \subseteq reqs[i].input.keys
       /\ reqs[i].st = "done"
  /\ pc = "inferring"
  /\ calls >= 2

\* the validation message an input deserves for the tool it names, "" if
\* none: not a plain mapping, or a required name that is no key of it
deserved(r) ==
  IF r.input.shape # "object" THEN "Input must be a valid object"
  ELSE IF ~(Required(r.name) \subseteq r.input.keys)
  THEN "Missing required fields"
  ELSE ""

\* C14: for a request that names a tool of the Agent, an input that is not
\* a plain mapping or lacks a required name gives the error result with
\* the validation message, with no approval prompt and no execute; an input
\* that is a mapping with every required name as a key goes on to the
\* approval prompt or to execute, whatever the types of its values.
C14_ValidationFirst ==
  \A i \in 1..Len(reqs) :
    reqs[i].name \in tools
    => IF deserved(reqs[i]) # ""
       THEN /\ reqs[i].st = "done"
            /\ reqs[i].result.is_error
            /\ reqs[i].result.content = deserved(reqs[i])
            /\ reqs[i].result.tool_use_id = reqs[i].id
            /\ ~reqs[i].asked
            /\ ~reqs[i].executed
            /\ reqs[i].ex = NoExec
            /\ ~wroteToDisk(reqs[i])
       ELSE /\ reqs[i].result.content
                 \notin {"Input must be a valid object",
                         "Missing required fields"}
            /\ reqs[i].asked = approvalNeeded(reqs[i].name, reqs[i].input)
            /\ reqs[i].asked \/ reqs[i].executed

\* an edit_file request with confirm === true and no new_str was refused
\* by validation, and the turn went on
C14_Witness ==
  /\ pc = "inferring"
  /\ \E i \in 1..Len(reqs) :
       /\ reqs[i].name = "edit_file"
       /\ IsTrue(reqs[i].input.confirm)
       /\ reqs[i].input.shape = "object"
       /\ "new_str" \notin reqs[i].input.keys
       /\ reqs[i].result.content = "Missing required fields"

\* the positions at which text p occurs in text s
positions(s, p) == {k \in 1..Len(s) : StartsAt(s, p, k)}

\* execution x of an edit_file call with input `input` is at the point
\* where it has read an existing file in which old_str, a non-empty text,
\* does not occur exactly once, in a mode that needs old_str
readsUnusable(x, input) ==
  /\ x.stage = "read"
  /\ disk.exists
  /\ editMode(input) \in {"replace", "insert_before", "insert_after"}
  /\ input.old_str.t = "str"
  /\ input.old_str.s # <<>>
  /\ Cardinality(positions(disk.content, input.old_str.s)) # 1

\* C15: when execute has read an existing file in which old_str occurs
\* zero times or more than once (replace, insert_before, insert_after, any
\* confirm), it ends there, returns an error text and writes nothing; so
\* does an execute that goes on after its timer fired.
C15_UnusableOldStrWritesNothing ==
  [][/\ \A i \in 1..Len(reqs) :
          (/\ Len(reqs') = Len(reqs)
           /\ readsUnusable(reqs[i].ex, reqs[i].input)
           /\ reqs'[i].ex # reqs[i].ex
           /\ \A k \in 1..Len(bg') : bg'[k].id # reqs[i].id)
          => /\ reqs'[i].ex = NoExec
             /\ reqs[i].st = "exec" => reqs'[i].result.out.kind = "error"
             /\ disk' = disk
             /\ fileWrites' = fileWrites
     /\ \A j \in 1..Len(bg) :
          (/\ Len(bg') = Len(bg)
           /\ readsUnusable(bg[j].ex, bg[j].input)
           /\ bg'[j].ex # bg[j].ex)
          => bg'[j].ex.stage # "write"]_vars

\* the input's confirm is absent or false
unconfirmed(input) ==
  \/ input.confirm.t = "absent"
  \/ input.confirm.t = "bool" /\ ~input.confirm.b

\* no edit_file call with confirm absent or false is at a write or a
\* directory creation or has made one, and each that returned, returned a
\* preview or an error
unconfirmedOnlyPreview ==
  /\ \A i \in 1..Len(reqs) :
       (reqs[i].name = "edit_file" /\ unconfirmed(reqs[i].input))
       => /\ reqs[i].ex.stage \notin {"mkdir", "write"}
          /\ ~wroteToDisk(reqs[i])
          /\ reqs[i].result.out.kind \in {"none", "preview", "error"}
  /\ \A j \in 1..Len(bg) :
       (bg[j].name = "edit_file" /\ unconfirmed(bg[j].input))
       => bg[j].ex.stage \notin {"mkdir", "write"}

\* C16: an edit_file call whose confirm is absent or false, in any mode and
\* whatever is at the target path, never writes and never creates a
\* directory, and returns a preview or an error; while such calls are the
\* only ones, the file's existence and bytes stay as they are.
C16_UnconfirmedNeverWrites ==
  [][/\ unconfirmedOnlyPreview'
     /\ ((\A i \in 1..Len(reqs) : unconfirmed(reqs[i].input))
          /\ (\A j \in 1..Len(bg) : unconfirmed(bg[j].input))
          /\ (\A i \in 1..Len(reqs') : unconfirmed(reqs'[i].input)))
        => disk' = disk /\ fileWrites' = fileWrites]_vars

\* a request with confirm false to create a file that does not exist got
\* its preview, and the file still does not exist
C16_Witness ==
  /\ disk = DiskEmpty
  /\ \E i \in 1..Len(reqs) :
       /\ reqs[i].input.confirm = JBool(FALSE)
       /\ reqs[i].input.old_str = Absent
       /\ reqs[i].st = "done"
       /\ reqs[i].result.out = Ret("preview", "create")

\* the line of text s that position k is on
lineAt(s, k) == splitLines(SubSeq(s, 1, k - 1))

\* C17: when a confirmed replace has been written, the change_location of
\* its success result is the span of lines that new_str occupies in the new
\* content of the file: it starts on the line of an occurrence of new_str
\* and ends on the line that occurrence ends on.
C17_ChangeLocationIsChangedSpan ==
  [][\A i \in 1..Len(reqs) :
       (/\ Len(reqs') = Len(reqs)
        /\ reqs[i].ex.stage = "write"
        /\ reqs'[i].result.out.kind = "success"
        /\ reqs'[i].result.out.action = "replaced")
       => \E k \in positions(disk'.content, reqs[i].input.new_str.s) :
            /\ reqs'[i].result.out.loc.start_line = lineAt(disk'.content, k)
            /\ reqs'[i].result.out.loc.end_line
                 = lineAt(disk'.content, k)
                   + splitLines(reqs[i].input.new_str.s) - 1]_vars

\* the text the changes cs make of the lines a, from line `from` (0-based)
\* on: at each change's old range its added lines stand for its removed
\* lines
RECURSIVE applyChanges(_, _, _)
applyChanges(a, cs, from) ==
  IF cs = <<>> THEN slice(a, from, Len(a))
  ELSE slice(a, from, Head(cs).oldStart)
       \o Head(cs).newChunk
       \o applyChanges(a, Tail(cs), Head(cs).oldStart + Head(cs).oldCount)

\* C18: the changes generateDiff finds between texts A and B, applied to
\* the lines of A in order, give the lines of B; each change's removed lines
\* are the lines of A in its old range, and the ranges follow one another.
C18_DiffReconstructs ==
  diff.st = "returned"
  => /\ applyChanges(splitNewline(diff.oldContent), diff.changes, 0)
          = splitNewline(diff.newContent)
     /\ \A k \in 1..Len(diff.changes) :
          LET c == diff.changes[k] IN
          /\ c.oldChunk = slice(splitNewline(diff.oldContent), c.oldStart,
                                c.oldStart + c.oldCount)
          /\ Len(c.oldChunk) = c.oldCount
          /\ Len(c.newChunk) = c.newCount
          /\ k > 1 => diff.changes[k - 1].oldStart
                       + diff.changes[k - 1].oldCount <= c.oldStart

\* a diff was made of texts that differ over more lines than the lookahead
\* covers: no sync was found and the rest of the file is one change
C18_Witness ==
  /\ diff.st = "returned"
  /\ Len(diff.changes) = 1
  /\ diff.changes[1].oldCount + diff.changes[1].newCount >= LookAheadLimit
  /\ diff.changes[1].newCount >= LookAheadLimit

\* C19: a text diffed against itself has no changes; no changes are
\* rendered as the "(no changes)" marker; and the marker is rendered only
\* when the two texts are the same, line by line.
C19_NoChangesIffEqual ==
  diff.st = "returned"
  => /\ diff.oldContent = diff.newContent => diff.changes = <<>>
     /\ diff.changes = <<>> => diff.marker
     /\ diff.marker
        => splitNewline(diff.oldContent) = splitNewline(diff.newContent)

\* a text of several lines was diffed against itself
C19_Witness ==
  /\ diff.st = "returned"
  /\ diff.oldContent = diff.newContent
  /\ Len(splitNewline(diff.oldContent)) >= 3
  /\ diff.marker

\* a step in which SIGINT or SIGTERM reaches run()'s handler while no
\* shutdown is underway
signalTaken ==
  /\ sigLeft' = sigLeft - 1
  /\ handlersInstalled
  /\ ~isShuttingDown
  /\ ~exited

\* the transcript write the signal handler started is still going on
signalWritePending(ws) ==
  \E k \in 1..Len(ws) : ws[k].by = "signal" /\ ws[k].st = "writing"

\* the signal handler's part: a write of the Conversation is started when it
\* is not empty, and the process goes on until it settles; with an empty
\* Conversation the process ends at once and nothing is written
signalHandled ==
  signalTaken
  => IF Len(conversation) > 0
     THEN /\ writes' = Append(writes, TranscriptWrite("signal", conversation))
          /\ ~exited'
     ELSE /\ exited'
          /\ writes' = writes

\* C20: a signal that arrives while the Conversation is not empty and no
\* shutdown is underway starts a transcript write of the Conversation, and
\* the process is not terminated before that write has finished; with an
\* empty Conversation the process terminates without writing.
C20_SignalSaveFinishesBeforeExit ==
  [][signalHandled /\ (exited' => ~signalWritePending(writes'))]_vars

\* C21: once the handling of a first signal has begun, a later SIGINT or
\* SIGTERM that arrives before the process has ended changes nothing: no
\* save is started, the process is not ended, no other state changes.
C21_LaterSignalsChangeNothing ==
  [][(isShuttingDown /\ ~exited /\ sigLeft' = sigLeft - 1)
     => UNCHANGED <<tools, stdin, closed, lines, resolvePromise, pc,
                    conversation, toolTurns, currentContent, reqs, bg, disk,
                    fileWrites, isShuttingDown, sigSaving, exited, writes,
                    nextId, richLeft, asksLeft, calls, dispatches, lastCut, printed,
                    diff>>]_vars

\* C22: a transcript write that settles, written or failed, never stops the
\* shutdown: when run()'s write settles run() returns normally, and when
\* the signal handler's write settles the process exits; a failed write
\* leaves only its record.
C22_WriteOutcomeNeverStopsShutdown ==
  [][\A k \in 1..Len(writes) :
       (/\ writes[k].st = "writing"
        /\ Len(writes') >= k
        /\ writes'[k].st # "writing")
       => /\ writes'[k].by = "run" => pc' = "done"
          /\ writes'[k].by = "signal" => exited']_vars

\* run() has returned normally after its transcript write failed
C22_Witness ==
  /\ pc = "done"
  /\ ~exited
  /\ \E k \in 1..Len(writes) : writes[k].by = "run" /\ writes[k].st = "failed"

\* C23: every message list sent to the backend, on the first call of a user
\* turn and on the calls that follow tool results, has at most 50 messages.
C23_BackendSeesAtMostCap ==
  pc = "inferring" => Len(conversation) <= HistoryCap

\* a step in which run() appends a user message and starts a turn
turnStarts == pc' = "inferring" /\ calls' = 1 /\ conversation' # conversation

\* the Conversation the history-bounding step of such a step finds: the old
\* one, the assistant message of the turn that ended in the same step if
\* one did, and the user message just appended
pushedConversation ==
  conversation
  \o (IF pc = "await_line" THEN <<>>
      ELSE <<conversation'[Len(conversation') - 1]>>)
  \o <<UserText>>

\* new is what the history-bounding step is to make of old
boundedFrom(old, new) ==
  IF Len(old) <= HistoryCap THEN new = old
  ELSE LET start == Len(old) - Len(new) IN
       /\ new # <<>>
       /\ Len(new) <= HistoryCap
       /\ new = SubSeq(old, start + 1, Len(old))
       /\ new[Len(new)] = UserText
       /\ old[start + 1].role = "user" /\ old[start + 1].kind = "text"
       /\ \A k \in (Len(old) - HistoryCap)..(start - 1) :
            ~(old[k + 1].role = "user" /\ old[k + 1].kind = "text")

\* C26: after a user message is appended, a Conversation of more than 50
\* messages is cut to its suffix that begins at the earliest plain-text
\* user message at or after index length-50: a non-empty suffix of at most
\* 50 messages that holds the message just appended; a Conversation of 50
\* messages or fewer is left as it is.
C26_BoundedAtEarliestPlainUser ==
  [][turnStarts
     => /\ Len(conversation') >= 2 \/ pc = "await_line"
        /\ boundedFrom(pushedConversation, conversation')]_vars

\* a turn has just started with a history-bounding step that walked forward
\* from index length-50 to find its plain-text user message
C26_Witness ==
  /\ pc = "inferring"
  /\ calls = 1
  /\ lastCut.len > HistoryCap
  /\ lastCut.at > lastCut.len - HistoryCap
  /\ Len(conversation) = lastCut.len - lastCut.at

\* a step in which a response arrives and the turn limit stops the tool loop
turnLimitAborts ==
  pc = "inferring" /\ conversation' # conversation /\ printed'.notice

\* the assistant message run() appends in such a step: the content of the
\* response that was stopped (the last message, or the one before the user
\* message of a turn started in the same step)
abortedMessage ==
  IF pc' = "inferring"
  THEN conversation'[Len(conversation') - 1]
  ELSE conversation'[Len(conversation')]

\* C25: when the turn limit stops the tool loop, the notice is printed, the
\* text blocks of the response that was stopped are printed too, and run()
\* goes back to reading input rather than ending with an error.
C25_AbortSurfacesPartialContent ==
  [][turnLimitAborts
     => /\ abortedMessage.role = "assistant"
        /\ abortedMessage.text => printed'.text
        /\ pc' \in {"await_line", "inferring", "saving", "done"}]_vars

\* a step in which run(), waiting for input, is handed the next line typed
idleLineRead == pc = "await_line" /\ stdin # <<>> /\ stdin' = Tail(stdin)

\* C27: while run() waits for input, a line that is empty after trimming
\* leaves it waiting, the Conversation as it was and no backend call made;
\* a line that is 'exit' or 'quit' after trimming and lower-casing takes it
\* to the shutdown (the transcript write, or the end when there is nothing
\* to write) with no message appended and no backend call made.
C27_BlankAndExitLines ==
  [][idleLineRead
     => LET t == trim(Head(stdin)) IN
        /\ t = <<>>
           => /\ pc' = "await_line"
              /\ conversation' = conversation
              /\ calls' = calls
              /\ writes' = writes
        /\ toLowerCase(t) \in {<<"e", "x", "i", "t">>, <<"q", "u", "i", "t">>}
           => /\ pc' \in {"saving", "done"}
              /\ conversation' = conversation
              /\ calls' = calls]_vars

\* a blank line was typed first and run() still waits, nothing appended;
\* 'QUIT' is yet to be typed
C27_Witness ==
  /\ pc = "await_line"
  /\ conversation = <<>>
  /\ stdin = <<Hi, QuitLine>>
  /\ resolvePromise = RunReader

\* request r was asked for with confirm === true
confirmIsTrue(r) ==
  /\ r.input.shape = "object"
  /\ "confirm" \in r.input.keys
  /\ r.input.confirm = JBool(TRUE)

\* the order of a request's steps, as its record shows it: a prompt only
\* for a known edit_file request with confirm === true whose input passed
\* validation; while the reply is awaited no execute and no result; an
\* execute after a prompt only with an approving reply
stepsInOrder(r) ==
  /\ r.asked
     => /\ r.name = "edit_file"
        /\ r.name \in tools
        /\ confirmIsTrue(r)
        /\ validateInput(r.input, Required(r.name)) = ""
  /\ r.st = "approval"
     => r.asked /\ ~r.answered /\ ~r.executed /\ r.result = NoResult
  /\ (r.executed /\ r.asked) => r.answered /\ r.approved
  /\ (r.executed /\ r.name = "edit_file" /\ confirmIsTrue(r)) => r.asked

\* C28: a request's steps are validate, then the approval prompt, then
\* execute.  The operator is prompted only for an edit_file request with
\* confirm === true, after its validation has passed, at most once, and
\* never once execute has started; and a request waiting for the reply
\* never gets the timeout result, the timer starting with execute.
C28_ValidatePromptExecute ==
  [][\A i \in 1..Len(reqs') :
       /\ stepsInOrder(reqs'[i])
       /\ (i <= Len(reqs) /\ reqs[i].id = reqs'[i].id)
          => /\ (reqs[i].answered \/ reqs[i].executed)
                => reqs'[i].st # "approval"
             /\ reqs[i].st = "approval"
                => reqs'[i].result.content # TimeoutMessage]_vars

\* an edit_file request with confirm === true was prompted for, approved
\* and executed, and then ran into its timeout
C28_Witness ==
  \E i \in 1..Len(reqs) :
    /\ reqs[i].asked
    /\ reqs[i].approved
    /\ reqs[i].executed
    /\ reqs[i].st = "done"
    /\ reqs[i].result.content = TimeoutMessage

\* text s with its first occurrence of p replaced by the characters of r
literally(s, p, r) ==
  LET i == indexOf(s, p) IN
  SubSeq(s, 1, i - 1) \o r \o SubSeq(s, i + Len(p), Len(s))

\* what a replace / insert_before / insert_after of the input is to make of
\* the content
editedContent(content, input) ==
  LET old == input.old_str.s
      new == input.new_str.s
  IN CASE editMode(input) = "insert_before" ->
            literally(content, old, new \o <<"\n">> \o old)
       [] editMode(input) = "insert_after" ->
            literally(content, old, old \o <<"\n">> \o new)
       [] OTHER -> literally(content, old, new)

\* the step is the fs.writeFile of execution r of an edit_file call, a
\* replace or an insert on an existing file in which old_str occurs at
\* exactly one position
writesUniqueEdit(r) ==
  /\ r.name = "edit_file"
  /\ r.ex.stage = "write"
  /\ Len(fileWrites') = Len(fileWrites) + 1
  /\ fileWrites'[Len(fileWrites')].id = r.id
  /\ fileWrites'[Len(fileWrites')].op = "write"
  /\ disk.exists
  /\ editMode(r.input) \in {"replace", "insert_before", "insert_after"}
  /\ r.input.old_str.t = "str"
  /\ r.input.new_str.t = "str"
  /\ Cardinality(positions(disk.content, r.input.old_str.s)) = 1

\* C29: a confirmed replace, insert_before or insert_after on an existing
\* file in which old_str occurs exactly once writes the content with that
\* occurrence replaced by new_str, by new_str, a line break and old_str, or
\* by old_str, a line break and new_str, each taken character for
\* character, and the rest of the content as it was; also when new_str
\* holds '$' followed by '&', '$' or a backtick.
C29_WritesLiteralReplacement ==
  [][/\ \A i \in 1..Len(reqs) :
          writesUniqueEdit(reqs[i])
          => disk'.content = editedContent(disk.content, reqs[i].input)
     /\ \A j \in 1..Len(bg) :
          writesUniqueEdit(bg[j])
          => disk'.content = editedContent(disk.content, bg[j].input)]_vars

\* C30: a replace or an insert goes ahead (to its preview or to its write)
\* only when old_str matches at exactly one position of the content, every
\* start position of a match counted; with matches at two or more
\* positions the call ends there with the error that old_str is ambiguous.
C30_OnePositionOrAmbiguous ==
  [][\A i \in 1..Len(reqs) :
       (/\ Len(reqs') = Len(reqs)
        /\ reqs[i].name = "edit_file"
        /\ reqs[i].st = "exec"
        /\ reqs[i].ex.stage = "read"
        /\ reqs'[i].ex # reqs[i].ex
        /\ reqs'[i].st = "done"
        /\ reqs'[i].result.content # TimeoutMessage
        /\ disk.exists
        /\ editMode(reqs[i].input) \in {"replace", "insert_before",
                                         "insert_after"}
        /\ reqs[i].input.old_str.t = "str"
        /\ reqs[i].input.old_str.s # <<>>)
       => LET n == Cardinality(positions(disk.content,
                                         reqs[i].input.old_str.s))
          IN /\ reqs'[i].result.out.kind = "preview" => n = 1
             /\ n >= 2 => /\ reqs'[i].result.out.kind = "error"
                           /\ reqs'[i].result.out.action = "ambiguous"]_vars

\* old-text index k (0-based) lies in the removed range of a change of cs
inRemovedRange(cs, k) ==
  \E n \in 1..Len(cs) :
    cs[n].oldStart <= k /\ k < cs[n].oldStart + cs[n].oldCount

\* C31: every line the rendered diff prints as context of a change is an
\* unchanged line: its old-text index lies in no change's removed range
\* and the new text has the same line at the place that goes with it; and
\* at most 3 context lines come before and at most 3 after each change.
C31_ContextLinesAreUnchanged ==
  diff.st = "returned"
  => LET oldLines == splitNewline(diff.oldContent)
         newLines == splitNewline(diff.newContent)
     IN \A n \in 1..Len(diff.blocks) :
          LET c == diff.changes[n]
              b == diff.blocks[n]
          IN /\ Len(b.before) <= 3
             /\ Len(b.after) <= 3
             /\ \A m \in 1..Len(b.before) :
                  LET k == b.before[m]
                      j == c.newStart - (c.oldStart - k)
                  IN /\ ~inRemovedRange(diff.changes, k)
                     /\ k >= 0 /\ k < Len(oldLines)
                     /\ j >= 0 /\ j < Len(newLines)
                     /\ oldLines[k + 1] = newLines[j + 1]
             /\ \A m \in 1..Len(b.after) :
                  LET k == b.after[m]
                      j == c.newStart + c.newCount
                           + (k - (c.oldStart + c.oldCount))
                  IN /\ ~inRemovedRange(diff.changes, k)
                     /\ k >= 0 /\ k < Len(oldLines)
                     /\ j >= 0 /\ j < Len(newLines)
                     /\ oldLines[k + 1] = newLines[j + 1]

\* C32: every user message of tool results in the Conversation comes right
\* after an assistant message with tool_use blocks, and its results carry
\* the ids of those blocks, one for one in the same order; also after the
\* history has been cut.
C32_ResultsFollowTheirToolUse ==
  \A i \in 1..Len(conversation) :
    conversation[i].kind = "results"
    => /\ i > 1
       /\ conversation[i - 1].role = "assistant"
       /\ Len(conversation[i - 1].ids) > 0
       /\ conversation[i].ids = conversation[i - 1].ids

\* the history was cut and the Conversation that is left holds a message
\* of tool results
C32_Witness ==
  /\ lastCut.len > HistoryCap
  /\ Len(conversation) < lastCut.len
  /\ \E i \in 1..Len(conversation) : conversation[i].kind = "results"

\* C33: the roles of the Conversation alternate, a Conversation that is not
\* empty begins with a user message, and every message list sent to the
\* backend ends with a user message: plain text on the first call of a
\* turn, tool results on the later calls.
C33_RolesAlternate ==
  /\ \A i \in 1..(Len(conversation) - 1) :
       conversation[i].role # conversation[i + 1].role
  /\ conversation # <<>> => conversation[1].role = "user"
  /\ pc = "inferring"
     => /\ conversation # <<>>
        /\ conversation[Len(conversation)].role = "user"
        /\ calls = 1 => conversation[Len(conversation)].kind = "text"
        /\ calls > 1 => conversation[Len(conversation)].kind = "results"

\* a later backend call of a turn is being made after the history was cut
\* at the start of that turn
C33_Witness ==
  /\ pc = "inferring"
  /\ calls > 1
  /\ lastCut.len > HistoryCap
  /\ conversation[Len(conversation)].kind = "results"

\* C34: the Conversation has at most 50 messages right after the
\* history-bounding step (the first backend call of a turn), at most
\* 50 + 2 * 10 = 70 at any backend call, and never more than 72, the
\* moment before the history-bounding step cuts it included.
C34_LengthBounded ==
  /\ (pc = "inferring" /\ calls = 1) => Len(conversation) <= HistoryCap
  /\ pc = "inferring"
     => Len(conversation) <= HistoryCap + 2 * MAX_TOOL_TURNS
  /\ Len(conversation) <= HistoryCap + 2 * MAX_TOOL_TURNS + 2
  /\ lastCut.len <= HistoryCap + 2 * MAX_TOOL_TURNS + 2

\* the backend call after the tenth tool turn of a turn is being made with
\* more than 50 messages
C34_Witness ==
  /\ pc = "inferring"
  /\ toolTurns = MAX_TOOL_TURNS
  /\ Len(conversation) > HistoryCap

\* a step in which a backend call fails
backendCallFails == pc = "inferring" /\ pc' = "failed"

\* what holds around a failed backend call whatever message is last: the
\* failing step writes no transcript and leaves the Conversation as it is;
\* run() has then ended without a transcript write of its own; and a signal
\* sent afterwards finds no handler: it ends the process, no write started
failedCallEndsRun ==
  /\ backendCallFails
     => /\ writes' = writes
        /\ conversation' = conversation
        /\ conversation # <<>>
  /\ pc' = "failed"
     => \A k \in 1..Len(writes') : writes'[k].by # "run"
  /\ (pc = "failed" /\ ~exited /\ sigLeft' = sigLeft - 1)
     => /\ exited'
        /\ writes' = writes
        /\ isShuttingDown' = isShuttingDown

\* C35 as claimed: when a backend call fails run() ends with the error, no
\* transcript write is attempted, the handlers are removed, and the last
\* message of the Conversation is the user message typed for that turn.
C35_FailedCallLeavesTypedMessage ==
  [][/\ failedCallEndsRun
     /\ backendCallFails
        => conversation'[Len(conversation')] = UserText]_vars

\* C35 as amended: when a backend call fails run() ends with the error, no
\* transcript write is attempted, the handlers are removed, and the last
\* message of the Conversation is a user message of that turn: the message
\* typed if the first call of the turn failed, the tool results of the last
\* batch if a later call failed.
C35_FailedCallLeavesUserMessage ==
  [][/\ failedCallEndsRun
     /\ backendCallFails
        => LET last == conversation'[Len(conversation')] IN
           /\ last.role = "user"
           /\ calls = 1 => last = UserText
           /\ calls > 1 => last.kind = "results"]_vars

\* a backend call after a tool batch failed, and a signal sent afterwards
\* ended the process with no handler run and nothing written
C35_Witness ==
  /\ pc = "failed"
  /\ calls > 1
  /\ conversation[Len(conversation)].kind = "results"
  /\ exited
  /\ ~isShuttingDown
  /\ writes = <<>>

\* from old line i and new line j on, the scan finds no place within its
\* lookahead where the texts sync again
noResync(oldLines, newLines, i, j) ==
  \A h \in lookPairs(oldLines, newLines, i, j) :
    ~syncsAt(oldLines, newLines, i, j, h[2], h[1] - h[2])

\* change d comes after change c with at least one line between them that
\* is the same in both texts
separated(oldLines, newLines, c, d) ==
  LET oldEnd == c.oldStart + c.oldCount
      newEnd == c.newStart + c.newCount
      gap == d.oldStart - oldEnd
  IN /\ c.oldStart < d.oldStart
     /\ c.newStart < d.newStart
     /\ gap >= 1
     /\ d.newStart - newEnd = gap
     /\ \A t \in 1..gap : oldLines[oldEnd + t] = newLines[newEnd + t]

\* C36: the scan ends, and its changes have strictly increasing old and
\* new starts, old ranges and new ranges that do not overlap, at least one
\* removed or added line each, and between two consecutive changes at
\* least one line equal in both texts; a change made where no sync is found
\* within the lookahead covers the rest of both texts and is the last one.
C36_ChangesOrderedAndDisjoint ==
  diff.st = "returned"
  => LET oldLines == splitNewline(diff.oldContent)
         newLines == splitNewline(diff.newContent)
         cs == diff.changes
     IN /\ \A k \in 1..Len(cs) :
             /\ cs[k].oldCount >= 0
             /\ cs[k].newCount >= 0
             /\ cs[k].oldCount + cs[k].newCount >= 1
             /\ cs[k].oldStart + cs[k].oldCount <= Len(oldLines)
             /\ cs[k].newStart + cs[k].newCount <= Len(newLines)
             /\ noResync(oldLines, newLines, cs[k].oldStart, cs[k].newStart)
                => /\ k = Len(cs)
                   /\ cs[k].oldStart + cs[k].oldCount = Len(oldLines)
                   /\ cs[k].newStart + cs[k].newCount = Len(newLines)
        /\ \A k \in 1..(Len(cs) - 1) :
             separated(oldLines, newLines, cs[k], cs[k + 1])
        /\ \A k, m \in 1..Len(cs) :
             k < m
             => /\ cs[k].oldStart + cs[k].oldCount <= cs[m].oldStart
                /\ cs[k].newStart + cs[k].newCount <= cs[m].newStart

\* a scan has ended with two changes or more, the last of them made where
\* no sync was found
C36_Witness ==
  /\ diff.st = "returned"
  /\ Len(diff.changes) >= 2
  /\ noResync(splitNewline(diff.oldContent), splitNewline(diff.newContent),
              diff.changes[Len(diff.changes)].oldStart,
              diff.changes[Len(diff.changes)].newStart)

\* the lines yet to be read, in arrival order: those buffered, then those
\* still to arrive
lineQueue == lines \o stdin

\* how many lines a step hands to reads
taken == Len(lineQueue) - Len(lineQueue')

\* the requests whose approval read a step resolves with a line
repliedNow ==
  {i \in 1..Len(reqs') :
     /\ reqs'[i].answered
     /\ ~reqs'[i].reply.eof
     /\ ~(i <= Len(reqs) /\ reqs[i].id = reqs'[i].id /\ reqs[i].answered)}

\* a call of nextLine() has not resolved yet: run()'s read at the top of its
\* loop, or the approval read of a request
readPending ==
  \/ pc = "await_line"
  \/ \E i \in 1..Len(reqs) : reqs[i].st = "approval"

C37_EachLineToOneRead ==
  /\ [](resolvePromise # NoReader => lines = <<>>)
  /\ [][/\ taken >= 0
        /\ lineQueue' = SubSeq(lineQueue, taken + 1, Len(lineQueue))
        /\ repliedNow # {}
           => /\ taken = Cardinality(repliedNow)
              /\ \A i \in repliedNow :
                   reqs'[i].reply =
                     Line(lineQueue[Cardinality({j \in repliedNow : j <= i})])
              /\ ~turnStarts
        /\ repliedNow = {}
           => /\ \A n \in 1..(taken - 1) : isBlank(lineQueue[n])
              /\ taken >= 1
                 => LET last == lineQueue[taken] IN
                    turnStarts
                    <=> ~isBlank(last) /\ ~isExitWord(trim(last))
        /\ turnStarts => taken >= 1 /\ repliedNow = {}]_vars

\* a line typed while the backend call was in flight was buffered and then
\* handed to the approval read of request 1, which it approved; the next
\* line is still to arrive
C37_Witness ==
  /\ Len(reqs) >= 1
  /\ reqs[1].answered
  /\ reqs[1].reply = Line(YesLine)
  /\ reqs[1].approved
  /\ lines = <<>>
  /\ resolvePromise = NoReader
  /\ stdin = <<ExitLine>>
  /\ Len(conversation) >= 1

\* C10: every tool-result message holds one result per tool_use block of
\* the assistant message before it, the i-th result carrying the id of the
\* i-th block.
C10_OneResultPerRequest ==
  \A j \in 1..Len(conversation) :
    conversation[j].kind = "results" =>
      /\ j > 1
      /\ Len(conversation[j].ids) = Len(conversation[j - 1].ids)
      /\ Len(conversation[j].errs) = Len(conversation[j - 1].ids)
      /\ \A i \in 1..Len(conversation[j].ids) :
           conversation[j].ids[i] = conversation[j - 1].ids[i]

\* a batch of two with one error result and one success was returned
C10_Witness ==
  \E j \in 1..Len(conversation) :
    /\ conversation[j].kind = "results"
    /\ Len(conversation[j].ids) >= 2
    /\ \E a, b \in 1..Len(conversation[j].errs) :
         conversation[j].errs[a] /\ ~conversation[j].errs[b]

====
